---- MODULE Spec2Model ----
(***************************************************************************)
(* Ingestion / enrichment pipeline of the CSV transformer backend.         *)
(*                                                                         *)
(* State: the UploadedFile and FileContent tables, the stored file bytes,  *)
(* the Redis status hash per file id, the executions of the Celery task    *)
(* process_file_content, and the HTTP requests in flight (upload, destroy, *)
(* enrich).  Every ORM call commits on its own (no ATOMIC_REQUESTS, no     *)
(* transaction.atomic), so each one is a step other requests interleave    *)
(* with.                                                                   *)
(***************************************************************************)
EXTENDS Integers, Sequences, FiniteSets, TLC

(***************************************************************************)
(* Bounds of the model.                                                    *)
(***************************************************************************)
MaxFiles == 2
MaxTasks == 1
MaxUploads == 2
FileIds == 1..MaxFiles
TaskIds == 1..MaxTasks
UploadIds == 1..MaxUploads

(***************************************************************************)
(* Program constants.                                                      *)
(***************************************************************************)
max_retries == 3
default_retry_delay == 60
ProgressEvery == 1000
MIN_FILE_SIZE == 0
MAX_FILE_SIZE == 100 * 1024 * 1024

PENDING == "Pending"
PROCESSING == "Processing"
COMPLETED == "Completed"
FAILED == "Failed"
UploadStatus == {PENDING, PROCESSING, COMPLETED, FAILED}

(***************************************************************************)
(* Absent values.  A nullable column list is the empty set or a singleton. *)
(***************************************************************************)
NoFile == [exists |-> FALSE]
NoContent == [exists |-> FALSE]
NoStatus == [exists |-> FALSE]
NoBytes == [exists |-> FALSE]
NoParent == 0
NULL == {}
Some(x) == {x}

(***************************************************************************)
(* Files a client may submit: one that parses (1001 data rows, so that the *)
(* progress write happens at row 0 and at row 1000) and one whose bytes    *)
(* never decode.                                                           *)
(***************************************************************************)
GoodCsv == [name |-> "a.csv", size |-> 8000, header |-> <<"id", "qty">>,
            nrows |-> 1001, malformed |-> FALSE]
BadCsv == [name |-> "b.csv", size |-> 10, header |-> <<>>,
            nrows |-> 0, malformed |-> TRUE]
RawFiles == {GoodCsv, BadCsv}

VARIABLES files, content, disk, store, nextId, tasks, uploads, destroy,
          enrich, reader, calc

vars == <<files, content, disk, store, nextId, tasks, uploads, destroy,
          enrich, reader, calc>>

(***************************************************************************)
(* UploadedFile row as FileService.create_file makes it.                   *)
(***************************************************************************)
create_file(raw) ==
    [name |-> raw.name, size |-> raw.size, columns |-> NULL,
     status |-> PENDING, isEnriched |-> FALSE, parent |-> NoParent]

(***************************************************************************)
(* FileStatusManager.set_processing_status: one HMSET replacing the three  *)
(* fields of the hash (updated_at is not modelled).                        *)
(***************************************************************************)
set_status_field(s, f, status, progress) ==
    [s EXCEPT ![f] = [status |-> status,
                      progress |-> IF s[f] = NoStatus THEN progress ELSE s[f].progress]]

set_processing_status(s, f, status, progress) ==
    [s EXCEPT ![f] = [status |-> status, progress |-> progress]]

(***************************************************************************)
(* int((i / file_size) * 100) for non-negative i and positive file_size.   *)
(***************************************************************************)
ProgressPerMille(i, file_size) == (i * 1000) \div file_size

ProgressLeft(i, file_size) == 100 - (i * 100) \div file_size

Progress(i, file_size) == (i * 100) \div file_size

(***************************************************************************)
(* One execution record of the task process_file_content.                  *)
(*   mode     "direct" for a plain call, "worker" for a delivered message  *)
(*   retries  self.request.retries                                         *)
(*   countdown, waited                                                     *)
(*            the delay the message was sent with and the time it has      *)
(*            waited since; it is delivered once waited >= countdown       *)
(*   local    the in-memory UploadedFile instance                          *)
(*   runs     executions of the task body so far                           *)
(*   notFound the current execution found no row at objects.get            *)
(***************************************************************************)
IdleTask ==
    [pc |-> "idle", file |-> 0, mode |-> "none", req |-> 0, retries |-> 0,
     countdown |-> 0, waited |-> 0, local |-> NoFile, cols |-> NULL, nrows |-> 0, i |-> 0,
     runs |-> 0, notFound |-> FALSE, result |-> "none"]

NewTask(f, mode, req) ==
    [IdleTask EXCEPT !.pc = "queued", !.file = f, !.mode = mode, !.req = req]

\* a slot is free before its first use and again once its task has ended
\* and, for a direct call, the caller has taken the outcome
\* the task body is left, by return or by an exception: its locals are gone
Finish(task, result) ==
    [task EXCEPT !.pc = "done", !.result = result, !.local = NoFile,
                 !.cols = NULL, !.nrows = 0, !.i = 0, !.countdown = 0, !.waited = 0]

FreeTasks ==
    {t \in TaskIds : \/ tasks[t].pc = "idle"
                     \/ /\ tasks[t].pc = "done"
                        /\ tasks[t].mode = "direct" => uploads[tasks[t].req].pc = "responded"}

IdleUpload == [pc |-> "idle", raw |-> NoBytes, file |-> 0, task |-> 0, response |-> 0]

(***************************************************************************)
(* The enrichment request: the source row read by get_object, the row it   *)
(* created (new, 0 while enriched_file is None), the in-memory instance of *)
(* that row, and how the call to enrich_file ended.                        *)
(***************************************************************************)
IdleEnrich ==
    [pc |-> "idle", src |-> 0, file |-> NoFile, name |-> "", new |-> 0,
     local |-> NoFile, cols |-> <<>>, rows |-> 0, failed |-> "none", outcome |-> "none",
     filesBefore |-> {}, contentBefore |-> {}]

(***************************************************************************)
(* What the last read request (retrieve, list, preview) saw of a file.     *)
(***************************************************************************)
NoRead == [file |-> 0, isEnriched |-> FALSE, hasContent |-> FALSE]

(***************************************************************************)
(* calc holds the argument and the result of one call of a function that   *)
(* works in memory (parsing, the lookup, the merge); NoCalc while the      *)
(* specification at hand makes no such call.                               *)
(***************************************************************************)
NoCalc == [pc |-> "none"]

Init ==
    /\ files = [f \in FileIds |-> NoFile]
    /\ content = [f \in FileIds |-> NoContent]
    /\ disk = [f \in FileIds |-> NoBytes]
    /\ store = [f \in FileIds |-> NoStatus]
    /\ nextId = 1
    /\ tasks = [t \in TaskIds |-> IdleTask]
    /\ uploads = [u \in UploadIds |-> IdleUpload]
    /\ destroy = [pc |-> "idle", file |-> 0]
    /\ enrich = IdleEnrich
    /\ reader = NoRead
    /\ calc = NoCalc

IsFile(f) == f \in FileIds /\ files[f] # NoFile

NameExists(name) == \E f \in FileIds : files[f] # NoFile /\ files[f].name = name

(***************************************************************************)
(* FileUploadViewSet.create.  The serializer checks the name against the   *)
(* table, create_file inserts the row and stores the bytes, then the task  *)
(* function is called as a plain function: the request thread runs the     *)
(* task body itself and answers only when that call has returned or raised.*)
(***************************************************************************)
\* every name of the model ends in ".csv"
validate_file(raw) ==
    /\ raw.size > MIN_FILE_SIZE
    /\ raw.size <= MAX_FILE_SIZE
    /\ ~NameExists(raw.name)

UploadValidate(u, raw) ==
    /\ uploads[u].pc = "idle"
    /\ IF validate_file(raw)
          THEN uploads' = [uploads EXCEPT ![u].pc = "create", ![u].raw = raw]
          ELSE uploads' = [uploads EXCEPT ![u].pc = "responded", ![u].response = 400]
    /\ UNCHANGED <<files, content, disk, store, nextId, tasks, destroy, enrich, reader, calc>>

UploadCreate(u) ==
    /\ uploads[u].pc = "create"
    /\ nextId \in FileIds
    /\ \E t \in FreeTasks :
          /\ t = CHOOSE x \in FreeTasks : \A y \in FreeTasks : x <= y
          /\ files' = [files EXCEPT ![nextId] = create_file(uploads[u].raw)]
          /\ disk' = [disk EXCEPT ![nextId] = uploads[u].raw]
          /\ tasks' = [tasks EXCEPT ![t] = NewTask(nextId, "direct", u)]
          /\ uploads' = [uploads EXCEPT ![u].pc = "in_task", ![u].file = nextId,
                                        ![u].task = t]
    /\ nextId' = nextId + 1
    /\ UNCHANGED <<content, store, destroy, enrich, reader, calc>>

UploadRespond(u) ==
    /\ uploads[u].pc = "in_task"
    /\ tasks[uploads[u].task].pc = "done"
    /\ uploads' = [uploads EXCEPT
          ![u].pc = "responded",
          ![u].response = IF tasks[uploads[u].task].result = "True" THEN 201 ELSE 400]
    /\ UNCHANGED <<files, content, disk, store, nextId, tasks, destroy, enrich, reader, calc>>

(***************************************************************************)
(* A task message for file id f arriving at the worker through the broker. *)
(***************************************************************************)
SendTask(f) ==
    /\ \E t \in FreeTasks :
          /\ t = CHOOSE x \in FreeTasks : \A y \in FreeTasks : x <= y
          /\ tasks' = [tasks EXCEPT ![t] = NewTask(f, "worker", 0)]
    /\ UNCHANGED <<files, content, disk, store, nextId, uploads, destroy, enrich, reader, calc>>

(***************************************************************************)
(* Time passing for the messages that wait for their countdown.            *)
(***************************************************************************)
Waiting(task) == task.pc = "queued" /\ task.waited < task.countdown

Tick(d) ==
    /\ \E t \in DOMAIN tasks : Waiting(tasks[t])
    /\ tasks' = [t \in DOMAIN tasks |->
          IF Waiting(tasks[t])
             THEN [tasks[t] EXCEPT !.waited =
                      IF @ + d < tasks[t].countdown THEN @ + d ELSE tasks[t].countdown]
             ELSE tasks[t]]
    /\ UNCHANGED <<files, content, disk, store, nextId, uploads, destroy, enrich, reader, calc>>

(***************************************************************************)
(* process_file_content, one action per statement that touches a store.    *)
(* A call of set_processing_status may raise (glitch: Redis not reachable) *)
(* like the storage read may.                                              *)
(***************************************************************************)
\* line 50: UploadedFile.objects.get(id=file_id), inside the outer try only
ProcessGet(t) ==
    /\ tasks[t].pc = "queued"
    /\ ~Waiting(tasks[t])
    /\ LET f == tasks[t].file IN
       IF files[f] = NoFile
          THEN tasks' = [tasks EXCEPT ![t].pc = "retry", ![t].runs = @ + 1,
                                      ![t].notFound = TRUE]
          ELSE tasks' = [tasks EXCEPT ![t].pc = "set_processing", ![t].runs = @ + 1,
                                      ![t].local = files[f]]
    /\ UNCHANGED <<files, content, disk, store, nextId, uploads, destroy, enrich, reader, calc>>

\* line 51, outside the inner try: when the write to Redis raises, the
\* outer handler is the one that catches it
ProcessSetProcessing(t) ==
    /\ tasks[t].pc = "set_processing"
    /\ \E glitch \in BOOLEAN :
          IF glitch
             THEN /\ tasks' = [tasks EXCEPT ![t].pc = "retry"]
                  /\ UNCHANGED store
             ELSE /\ store' = set_processing_status(store, tasks[t].file, PROCESSING, 0)
                  /\ tasks' = [tasks EXCEPT ![t].pc = "read"]
    /\ UNCHANGED <<files, content, disk, nextId, uploads, destroy, enrich, reader, calc>>

\* lines 55-58: read the bytes, decode, build the reader.  Fails when the
\* bytes are gone, when they do not decode, or on a storage read glitch.
ProcessRead(t) ==
    /\ tasks[t].pc = "read"
    /\ LET f == tasks[t].file IN
       \E glitch \in BOOLEAN :
          IF disk[f] = NoBytes \/ disk[f].malformed \/ glitch
             THEN tasks' = [tasks EXCEPT ![t].pc = "except_save"]
             ELSE tasks' = [tasks EXCEPT ![t].pc = "rows", ![t].i = 0,
                                         ![t].cols = Some(disk[f].header),
                                         ![t].nrows = disk[f].nrows]
    /\ UNCHANGED <<files, content, disk, store, nextId, uploads, destroy, enrich, reader, calc>>

\* lines 61-65: the rows up to the next one whose index is a multiple of
\* 1000, and the progress write for that row
ProcessRows(t) ==
    /\ tasks[t].pc = "rows"
    /\ tasks[t].i < tasks[t].nrows
    /\ \E glitch \in BOOLEAN :
          IF glitch
             THEN /\ tasks' = [tasks EXCEPT ![t].pc = "except_save"]
                  /\ UNCHANGED store
             ELSE /\ store' = set_processing_status(store, tasks[t].file, PROCESSING,
                                   Progress(tasks[t].i, tasks[t].local.size))
                  /\ tasks' = [tasks EXCEPT ![t].i = @ + ProgressEvery]
    /\ UNCHANGED <<files, content, disk, nextId, uploads, destroy, enrich, reader, calc>>

\* lines 68-70: Model.save() updates the row and inserts it when no row
\* with that id is left
ProcessSave(t) ==
    /\ tasks[t].pc = "rows"
    /\ tasks[t].i >= tasks[t].nrows
    /\ LET new == [tasks[t].local EXCEPT !.columns = tasks[t].cols,
                                         !.status = COMPLETED] IN
       /\ files' = [files EXCEPT ![tasks[t].file] = new]
       /\ tasks' = [tasks EXCEPT ![t].pc = "create_content", ![t].local = new]
    /\ UNCHANGED <<content, disk, store, nextId, uploads, destroy, enrich, reader, calc>>

\* line 72: FileContent.objects.create; the one-to-one key rejects a second
\* content row for the file and the foreign key rejects a missing file row
ProcessCreateContent(t) ==
    /\ tasks[t].pc = "create_content"
    /\ LET f == tasks[t].file IN
       IF files[f] = NoFile \/ content[f] # NoContent
          THEN /\ tasks' = [tasks EXCEPT ![t].pc = "except_save"]
               /\ UNCHANGED content
          ELSE /\ content' = [content EXCEPT ![f] =
                      [source |-> tasks[t].local.name, row_count |-> tasks[t].nrows]]
               /\ tasks' = [tasks EXCEPT ![t].pc = "set_completed"]
    /\ UNCHANGED <<files, disk, store, nextId, uploads, destroy, enrich, reader, calc>>

\* lines 73-75
ProcessSetCompleted(t) ==
    /\ tasks[t].pc = "set_completed"
    /\ \E glitch \in BOOLEAN :
          IF glitch
             THEN /\ tasks' = [tasks EXCEPT ![t].pc = "except_save"]
                  /\ UNCHANGED store
             ELSE /\ store' = set_processing_status(store, tasks[t].file, COMPLETED, 100)
                  /\ tasks' = [tasks EXCEPT ![t] = Finish(@, "True")]
    /\ UNCHANGED <<files, content, disk, nextId, uploads, destroy, enrich, reader, calc>>

\* lines 80-83
ProcessExceptSave(t) ==
    /\ tasks[t].pc = "except_save"
    /\ LET new == [tasks[t].local EXCEPT !.status = FAILED] IN
       /\ files' = [files EXCEPT ![tasks[t].file] = new]
       /\ tasks' = [tasks EXCEPT ![t].pc = "except_status", ![t].local = new]
    /\ UNCHANGED <<content, disk, store, nextId, uploads, destroy, enrich, reader, calc>>

\* lines 84-86; an exception raised inside this handler leaves it as the
\* original one would and is caught by the outer handler
ProcessExceptStatus(t) ==
    /\ tasks[t].pc = "except_status"
    /\ \E glitch \in BOOLEAN :
          IF glitch
             THEN UNCHANGED store
             ELSE store' = set_processing_status(store, tasks[t].file, FAILED, 0)
    /\ tasks' = [tasks EXCEPT ![t].pc = "retry"]
    /\ UNCHANGED <<files, content, disk, nextId, uploads, destroy, enrich, reader, calc>>

(***************************************************************************)
(* lines 87-95: self.retry(exc=e).  Task.retry re-raises exc when the task *)
(* was called directly, and also when the retries are used up and exc is   *)
(* given (MaxRetriesExceededError is raised only without exc); otherwise   *)
(* it sends the message again with retries + 1 and the countdown, and      *)
(* raises Retry.  In every case an exception leaves the task body, so      *)
(* lines 91 and 93-95 do not run.                                          *)
(***************************************************************************)
CanRetryOffByOne(task) == task.mode = "worker" /\ task.retries <= max_retries

CanRetry(task) == task.mode = "worker" /\ task.retries + 1 <= max_retries

ProcessRetry(t) ==
    /\ tasks[t].pc = "retry"
    /\ IF CanRetry(tasks[t])
          THEN tasks' = [tasks EXCEPT ![t].pc = "queued", ![t].retries = @ + 1,
                                      ![t].countdown = default_retry_delay,
                                      ![t].waited = 0, ![t].notFound = FALSE,
                                      ![t].local = NoFile, ![t].cols = NULL,
                                      ![t].nrows = 0, ![t].i = 0]
          ELSE tasks' = [tasks EXCEPT ![t] = Finish(@, "raised")]
    /\ UNCHANGED <<files, content, disk, store, nextId, uploads, destroy, enrich, reader, calc>>

(***************************************************************************)
(* Model.delete() of a row: its content row goes with it (CASCADE), the    *)
(* rows enriched from it stay with parent_file null (SET_NULL).            *)
(***************************************************************************)
DeleteRowCascade(tbl, f) ==
    [g \in FileIds |->
        IF g = f \/ (tbl[g] # NoFile /\ tbl[g].parent = f) THEN NoFile ELSE tbl[g]]

DeleteRow(tbl, f) ==
    [g \in FileIds |->
        IF g = f THEN NoFile
        ELSE IF tbl[g] # NoFile /\ tbl[g].parent = f
                THEN [tbl[g] EXCEPT !.parent = NoParent]
                ELSE tbl[g]]

(***************************************************************************)
(* FileUploadViewSet.destroy: get_object, delete the bytes, delete the row *)
(* (FileContent cascades, children keep their row with parent_file null).  *)
(***************************************************************************)
DestroyFile(f) ==
    /\ destroy.pc = "idle"
    /\ IsFile(f)
    /\ disk' = [disk EXCEPT ![f] = NoBytes]
    /\ destroy' = [pc |-> "delete_row", file |-> f]
    /\ UNCHANGED <<files, content, store, nextId, tasks, uploads, enrich, reader, calc>>

DestroyRow ==
    /\ destroy.pc = "delete_row"
    /\ files' = DeleteRow(files, destroy.file)
    /\ content' = [content EXCEPT ![destroy.file] = NoContent]
    /\ destroy' = [pc |-> "idle", file |-> 0]
    /\ UNCHANGED <<disk, store, nextId, tasks, uploads, enrich, reader, calc>>

(***************************************************************************)
(* FileUploadViewSet.enrich and FileService.enrich_file.                   *)
(***************************************************************************)
EnrichNames == {"e.csv"}
ApiColumns == <<"name">>

\* length of the bytes create_csv_content makes: at least one per column
\* name and per line
csv_size(cols, nrows) == 2 * Len(cols) + 2 * Len(cols) * nrows

Existing(tbl, none) == {f \in FileIds : tbl[f] # none}

\* views.py 187-190: the serializer checks the new name, get_object loads
\* the source row
EnrichValidate(src, name) ==
    /\ enrich.pc \in {"idle", "responded"}
    /\ IsFile(src)
    /\ IF NameExists(name)
          THEN enrich' = [IdleEnrich EXCEPT !.pc = "responded", !.outcome = "invalid"]
          ELSE enrich' = [IdleEnrich EXCEPT !.pc = "compute", !.src = src,
                             !.file = files[src], !.name = name,
                             !.filesBefore = Existing(files, NoFile),
                             !.contentBefore = Existing(content, NoContent)]
    /\ UNCHANGED <<files, content, disk, store, nextId, tasks, uploads, destroy, reader, calc>>

\* services.py 118-119: enrich_content and create_csv_content work in memory.
\* They raise when the source has no columns or not the join column, when
\* the lookup source fails or answers badly (inputOk false), and when the
\* source has no content row.  The merge gives one row per source row; the
\* columns are the source's and the lookup's.
EnrichCompute ==
    /\ enrich.pc = "compute"
    /\ \E inputOk \in BOOLEAN :
          IF enrich.file.columns = NULL \/ ~inputOk \/ content[enrich.src] = NoContent
             THEN enrich' = [enrich EXCEPT !.pc = "responded", !.outcome = "raised",
                                           !.failed = "compute"]
             ELSE enrich' = [enrich EXCEPT !.pc = "create",
                    !.cols = (CHOOSE c \in enrich.file.columns : TRUE) \o ApiColumns,
                    !.rows = content[enrich.src].row_count]
    /\ UNCHANGED <<files, content, disk, store, nextId, tasks, uploads, destroy, reader, calc>>

\* services.py 122-129 with the defaults of the model for is_enriched and
\* parent_file
enriched_file_unmarked(name, all_columns, src) ==
    [name |-> name, size |-> 0, columns |-> Some(all_columns),
     status |-> COMPLETED, isEnriched |-> FALSE, parent |-> NoParent]

\* services.py 122-129: the row UploadedFile.objects.create inserts
enriched_file(name, all_columns, src) ==
    [name |-> name, size |-> 0, columns |-> Some(all_columns),
     status |-> COMPLETED, isEnriched |-> TRUE, parent |-> src]

\* services.py 122-129: the enriched row is inserted, and committed, before
\* its bytes and its content exist.  The insert fails when the parent row
\* is gone.
EnrichCreate ==
    /\ enrich.pc = "create"
    /\ nextId \in FileIds
    /\ IF files[enrich.src] = NoFile
          THEN /\ enrich' = [enrich EXCEPT !.pc = "responded", !.outcome = "raised",
                                           !.failed = "create"]
               /\ UNCHANGED <<files, nextId>>
          ELSE LET new == enriched_file(enrich.name, enrich.cols, enrich.src) IN
               /\ files' = [files EXCEPT ![nextId] = new]
               /\ nextId' = nextId + 1
               /\ enrich' = [enrich EXCEPT !.pc = "save_bytes", !.new = nextId,
                                           !.local = new]
    /\ UNCHANGED <<content, disk, store, tasks, uploads, destroy, reader, calc>>

\* models.py 40-46: parent_file is a foreign key, so a save that writes the
\* id of a row that is gone is refused
ParentThere(row) == row.parent = NoParent \/ files[row.parent] # NoFile

\* services.py 132: FieldFile.save stores the bytes and saves the instance
EnrichSaveBytes ==
    /\ enrich.pc = "save_bytes"
    /\ \E ok \in BOOLEAN :
          IF ok /\ ParentThere(enrich.local)
             THEN /\ disk' = [disk EXCEPT ![enrich.new] =
                         [name |-> enrich.name,
                          size |-> csv_size(enrich.cols, enrich.rows),
                          header |-> enrich.cols, nrows |-> enrich.rows,
                          malformed |-> FALSE]]
                  /\ files' = [files EXCEPT ![enrich.new] = enrich.local]
                  /\ enrich' = [enrich EXCEPT !.pc = "save_size"]
             ELSE /\ enrich' = [enrich EXCEPT !.pc = "cleanup", !.failed = "save_bytes"]
                  /\ UNCHANGED <<files, disk>>
    /\ UNCHANGED <<content, store, nextId, tasks, uploads, destroy, reader, calc>>

\* services.py 133-134
EnrichSaveSize ==
    /\ enrich.pc = "save_size"
    /\ \E ok \in BOOLEAN :
          IF ok /\ ParentThere(enrich.local)
             THEN LET new == [enrich.local EXCEPT
                                 !.size = csv_size(enrich.cols, enrich.rows)] IN
                  /\ files' = [files EXCEPT ![enrich.new] = new]
                  /\ enrich' = [enrich EXCEPT !.pc = "create_content", !.local = new]
             ELSE /\ enrich' = [enrich EXCEPT !.pc = "cleanup", !.failed = "save_size"]
                  /\ UNCHANGED files
    /\ UNCHANGED <<content, disk, store, nextId, tasks, uploads, destroy, reader, calc>>

\* services.py 137-139
EnrichCreateContent ==
    /\ enrich.pc = "create_content"
    /\ \E ok \in BOOLEAN :
          IF ok /\ files[enrich.new] # NoFile /\ content[enrich.new] = NoContent
             THEN /\ content' = [content EXCEPT ![enrich.new] =
                         [source |-> enrich.name,
                          row_count |-> enrich.rows]]
                  /\ enrich' = [enrich EXCEPT !.pc = "responded", !.outcome = "returned"]
             ELSE /\ enrich' = [enrich EXCEPT !.pc = "cleanup", !.failed = "create_content"]
                  /\ UNCHANGED content
    /\ UNCHANGED <<files, disk, store, nextId, tasks, uploads, destroy, reader, calc>>

\* services.py 141-144: the compensating delete, then the bare raise.  When
\* the delete raises, that exception is the one that leaves enrich_file.
EnrichCleanup ==
    /\ enrich.pc = "cleanup"
    /\ \E ok \in BOOLEAN :
          IF ok
             THEN /\ files' = DeleteRow(files, enrich.new)
                  /\ content' = [content EXCEPT ![enrich.new] = NoContent]
                  /\ enrich' = [enrich EXCEPT !.pc = "responded", !.outcome = "raised"]
             ELSE /\ enrich' = [enrich EXCEPT !.pc = "responded",
                                              !.outcome = "raised_cleanup"]
                  /\ UNCHANGED <<files, content>>
    /\ UNCHANGED <<disk, store, nextId, tasks, uploads, destroy, reader, calc>>

(***************************************************************************)
(* A read request (retrieve, list or preview) for file f: what it sees of  *)
(* the row and of its content at the time of its queries.                  *)
(***************************************************************************)
Read(f) ==
    /\ IsFile(f)
    /\ reader' = [file |-> f, isEnriched |-> files[f].isEnriched,
                  hasContent |-> content[f] # NoContent]
    /\ reader' # reader
    /\ UNCHANGED <<files, content, disk, store, nextId, tasks, uploads, destroy, enrich, calc>>

(***************************************************************************)
(* FileUploadViewSet.status, views.py 217-221, for any id of the URL.      *)
(***************************************************************************)
QueryIds == 1..(MaxFiles + 1)

\* redis.py 33: HGETALL gives the fields of the hash as strings, and the
\* empty dict for a key that is not there
get_processing_status(s, file_id) ==
    IF file_id \in DOMAIN s /\ s[file_id] # NoStatus
       THEN [status |-> s[file_id].status, progress |-> ToString(s[file_id].progress)]
       ELSE <<>>

\* views.py 217 without the default
or_nothing(value, default) == value

\* value or default: the empty dict is false
or_default(value, default) == IF value = <<>> THEN default ELSE value

\* serializers.py 173-183: is_valid() and .data of a serializer with the
\* one field status; without that field the data are invalid and .data is
\* the initial data of the fields that are there, none
StatusOutputSerializer(data) ==
    IF "status" \in DOMAIN data THEN [status |-> data.status] ELSE <<>>

status_view(s, pk) ==
    StatusOutputSerializer(or_default(get_processing_status(s, pk),
                                      [status |-> "Unknown"]))

StatusQuery(pk) ==
    /\ calc' = [pc |-> "status", pk |-> pk, out |-> status_view(store, pk)]
    /\ UNCHANGED <<files, content, disk, store, nextId, tasks, uploads, destroy,
                   enrich, reader>>

Process(t) ==
    \/ ProcessGet(t)
    \/ ProcessSetProcessing(t)
    \/ ProcessRead(t)
    \/ ProcessRows(t)
    \/ ProcessSave(t)
    \/ ProcessCreateContent(t)
    \/ ProcessSetCompleted(t)
    \/ ProcessExceptSave(t)
    \/ ProcessExceptStatus(t)
    \/ ProcessRetry(t)

Next ==
    \/ \E u \in UploadIds, raw \in RawFiles : UploadValidate(u, raw)
    \/ \E u \in UploadIds : UploadCreate(u)
    \/ \E u \in UploadIds : UploadRespond(u)
    \/ \E f \in FileIds : SendTask(f)
    \/ \E d \in {default_retry_delay \div 2, default_retry_delay} : Tick(d)
    \/ \E t \in TaskIds : Process(t)
    \/ \E f \in FileIds : DestroyFile(f)
    \/ DestroyRow

Spec == Init /\ [][Next]_vars

(***************************************************************************)
(* The state in which one upload request for raw has been answered, its    *)
(* task having returned True (ok) or raised at the read (~ok).             *)
(***************************************************************************)
Uploaded(raw, ok) ==
    /\ files = [f \in FileIds |->
          IF f = 1 THEN [create_file(raw) EXCEPT
                            !.columns = IF ok THEN Some(raw.header) ELSE NULL,
                            !.status = IF ok THEN COMPLETED ELSE FAILED]
                   ELSE NoFile]
    /\ content = [f \in FileIds |->
          IF f = 1 /\ ok THEN [source |-> raw.name, row_count |-> raw.nrows]
                         ELSE NoContent]
    /\ disk = [f \in FileIds |-> IF f = 1 THEN raw ELSE NoBytes]
    /\ store = [f \in FileIds |->
          IF f = 1 THEN [status |-> IF ok THEN COMPLETED ELSE FAILED,
                         progress |-> IF ok THEN 100 ELSE 0]
                   ELSE NoStatus]
    /\ nextId = 2
    /\ uploads = [u \in UploadIds |->
          IF u = 1 THEN [pc |-> "responded", raw |-> raw, file |-> 1, task |-> 1,
                         response |-> IF ok THEN 201 ELSE 400]
                   ELSE IdleUpload]
    /\ destroy = [pc |-> "idle", file |-> 0]
    /\ enrich = IdleEnrich
    /\ reader = NoRead

\* the direct call of that request, ended
UploadedTask(ok) ==
    Finish([NewTask(1, "direct", 1) EXCEPT !.runs = 1], IF ok THEN "True" ELSE "raised")

AfterUpload(raw, ok) ==
    /\ Uploaded(raw, ok)
    /\ tasks = [t \in TaskIds |-> IF t = 1 THEN UploadedTask(ok) ELSE IdleTask]
    /\ calc = NoCalc

(***************************************************************************)
(* Task messages delivered by the worker, and deletions, for a table that  *)
(* holds one uploaded file: processed, failed on a read glitch, or failed  *)
(* because its bytes do not decode.                                        *)
(***************************************************************************)
InitWorker ==
    \E raw \in RawFiles, ok \in BOOLEAN :
       /\ ok => ~raw.malformed
       /\ AfterUpload(raw, ok)

NextWorker ==
    \/ \E f \in FileIds : SendTask(f)
    \/ \E d \in {default_retry_delay \div 2, default_retry_delay} : Tick(d)
    \/ \E t \in TaskIds : Process(t)
    \/ \E f \in FileIds : DestroyFile(f)
    \/ DestroyRow

SpecWorker == InitWorker /\ [][NextWorker]_vars

(***************************************************************************)
(* Enrichment requests, read requests and deletions on a table that holds  *)
(* one uploaded file whose processing has completed.                       *)
(***************************************************************************)
InitEnrich == AfterUpload(GoodCsv, TRUE)

NextEnrich ==
    \/ \E src \in FileIds, name \in EnrichNames : EnrichValidate(src, name)
    \/ EnrichCompute
    \/ EnrichCreate
    \/ EnrichSaveBytes
    \/ EnrichSaveSize
    \/ EnrichCreateContent
    \/ EnrichCleanup
    \/ \E f \in FileIds : Read(f)
    \/ \E pk \in QueryIds : StatusQuery(pk)
    \/ \E f \in FileIds : DestroyFile(f)
    \/ DestroyRow

SpecEnrich == InitEnrich /\ [][NextEnrich]_vars

(***************************************************************************)
(* The parsing stage, celery.py 55-62 and 68-72, on real text.  A CSV cell *)
(* is a sequence of pieces of text, LF being a line break inside a quoted  *)
(* cell; a record is a sequence of cells, the empty record a blank line.   *)
(***************************************************************************)
MaxRecords == 2
LF == "\n"

\* the pieces of a cell between its line breaks
RECURSIVE Fragments(_)
Fragments(cell) ==
    IF \E k \in 1..Len(cell) : cell[k] = LF
       THEN LET k == CHOOSE k \in 1..Len(cell) :
                        cell[k] = LF /\ \A j \in 1..(k - 1) : cell[j] # LF
            IN <<SubSeq(cell, 1, k - 1)>> \o Fragments(SubSeq(cell, k + 1, Len(cell)))
       ELSE <<cell>>

\* the lines str.splitlines() cuts the text of one record into: cur holds
\* the cells of the line so far, open says the line ends inside a quoted
\* cell.  The line breaks themselves are dropped.
RECURSIVE RecordLines(_, _)
RecordLines(rec, cur) ==
    IF rec = <<>>
       THEN <<[cells |-> cur, open |-> FALSE]>>
       ELSE LET fr == Fragments(Head(rec)) IN
            IF Len(fr) = 1
               THEN RecordLines(Tail(rec), Append(cur, fr[1]))
               ELSE <<[cells |-> Append(cur, fr[1]), open |-> TRUE]>>
                    \o [k \in 1..(Len(fr) - 2) |-> [cells |-> <<fr[k + 1]>>, open |-> TRUE]]
                    \o RecordLines(Tail(rec), <<fr[Len(fr)]>>)

\* line 56: content.splitlines() for the text whose records are recs
RECURSIVE splitlines(_)
splitlines(recs) ==
    IF recs = <<>> THEN <<>>
    ELSE RecordLines(Head(recs), <<>>) \o splitlines(Tail(recs))

\* csv.reader over a list of lines: a cell left open at the end of a line
\* goes on with the next line, with nothing between the two parts
RECURSIVE csv_reader(_)
csv_reader(lines) ==
    IF lines = <<>> THEN <<>>
    ELSE IF Head(lines).open /\ Len(lines) > 1
            THEN LET a == lines[1].cells
                     b == lines[2].cells
                     joined == [cells |-> SubSeq(a, 1, Len(a) - 1)
                                          \o <<a[Len(a)] \o b[1]>> \o Tail(b),
                                open |-> lines[2].open]
                 IN csv_reader(<<joined>> \o SubSeq(lines, 3, Len(lines)))
            ELSE <<Head(lines).cells>> \o csv_reader(Tail(lines))

\* line 57: DictReader.fieldnames is the first row read, None without one
fieldnames(rows) == IF rows = <<>> THEN NULL ELSE Some(rows[1])

\* DictReader.__next__: dict(zip(fieldnames, row)), a later column of the
\* same name overwriting an earlier one; the cells beyond the names go
\* under the key None (rest), the names beyond the cells get None
DictRow(names, row) ==
    [d |-> [k \in {names[j] : j \in 1..Len(names)} |->
               LET js == {j \in 1..Len(names) : names[j] = k}
                   last == CHOOSE j \in js : \A i \in js : i <= j
               IN IF last > Len(row) THEN NULL ELSE Some(row[last])],
     rest |-> IF Len(row) > Len(names)
                 THEN Some(SubSeq(row, Len(names) + 1, Len(row)))
                 ELSE NULL]

NotBlank(row) == row # <<>>

\* lines 58-62: the rows DictReader yields, blank rows skipped
DictReader(rows) ==
    IF rows = <<>> THEN <<>>
    ELSE LET body == SelectSeq(Tail(rows), NotBlank)
         IN [i \in 1..Len(body) |-> DictRow(rows[1], body[i])]

\* lines 55-72 for the text of recs: the columns saved on the file row and
\* the FileContent row created
parse_content(recs) ==
    LET read == csv_reader(splitlines(recs))
        rows == DictReader(read)
    IN [columns |-> fieldnames(read),
        content |-> [data |-> rows, row_count |-> Len(rows)]]

CellValues == {<<"1">>, <<"x", LF, "y">>}
HeaderRow == <<<<"id">>, <<"qty">>>>
DataRecords ==
    {<<>>} \cup {<<c>> : c \in CellValues}
           \cup {<<c, e>> : c \in CellValues, e \in CellValues}
           \cup {<<<<"1">>, <<"2">>, <<"3">>>>}
SeqsUpTo(S, n) == UNION {[1..k -> S] : k \in 0..n}
CsvTexts == {<<HeaderRow>> \o body : body \in SeqsUpTo(DataRecords, MaxRecords)}

InitParse ==
    /\ files = [f \in FileIds |-> NoFile]
    /\ content = [f \in FileIds |-> NoContent]
    /\ disk = [f \in FileIds |-> NoBytes]
    /\ store = [f \in FileIds |-> NoStatus]
    /\ nextId = 1
    /\ tasks = [t \in TaskIds |-> IdleTask]
    /\ uploads = [u \in UploadIds |-> IdleUpload]
    /\ destroy = [pc |-> "idle", file |-> 0]
    /\ enrich = IdleEnrich
    /\ reader = NoRead
    /\ \E recs \in CsvTexts : calc = [pc |-> "text", recs |-> recs]

Parse ==
    /\ calc.pc = "text"
    /\ calc' = [pc |-> "parsed", recs |-> calc.recs, out |-> parse_content(calc.recs)]
    /\ UNCHANGED <<files, content, disk, store, nextId, tasks, uploads, destroy,
                   enrich, reader>>

NextParse == Parse

SpecParse == InitParse /\ [][NextParse]_vars

(***************************************************************************)
(* create_csv_content, utils.py 231-236, and the parsing stage on what it  *)
(* wrote.  A value of a row is None, an integer or a string, the string    *)
(* given as a cell of the text.                                            *)
(***************************************************************************)
CsvNone == [t |-> "null"]
CsvInt(n) == [t |-> "int", n |-> n]
CsvStr(cell) == [t |-> "str", cell |-> cell]

\* csv.writer: None is written as the empty string, anything else as its
\* str()
field_text(v) ==
    CASE v.t = "null" -> <<>>
      [] v.t = "int" -> <<ToString(v.n)>>
      [] OTHER -> v.cell

\* DictWriter._dict_to_list: a key that is no field name raises, a field
\* name that is no key gives restval, the empty string
\* csv.DictWriter with extrasaction='raise': the keys of a row that are no
\* field name
wrong_fields(columns, rowdict) ==
    DOMAIN rowdict \ {columns[j] : j \in 1..Len(columns)}

create_csv_content(columns, data) ==
    IF \E i \in 1..Len(data) : wrong_fields(columns, data[i]) # {}
       THEN [error |-> "ValueError", text |-> <<>>]
       ELSE [error |-> "none",
             text |-> <<columns>> \o
                [i \in 1..Len(data) |->
                   [j \in 1..Len(columns) |->
                      IF columns[j] \in DOMAIN data[i]
                         THEN field_text(data[i][columns[j]])
                         ELSE <<>>]]]

CsvValues == {CsvNone, CsvInt(1), CsvStr(<<"1">>), CsvStr(<<"x", LF, "y">>)}
CsvRows ==
    {(<<"id">> :> a @@ <<"qty">> :> b) : a \in CsvValues, b \in CsvValues}
    \cup {(<<"id">> :> CsvInt(2))}

InitRoundTrip ==
    /\ files = [f \in FileIds |-> NoFile]
    /\ content = [f \in FileIds |-> NoContent]
    /\ disk = [f \in FileIds |-> NoBytes]
    /\ store = [f \in FileIds |-> NoStatus]
    /\ nextId = 1
    /\ tasks = [t \in TaskIds |-> IdleTask]
    /\ uploads = [u \in UploadIds |-> IdleUpload]
    /\ destroy = [pc |-> "idle", file |-> 0]
    /\ enrich = IdleEnrich
    /\ reader = NoRead
    /\ \E data \in SeqsUpTo(CsvRows, MaxRecords) :
          calc = [pc |-> "rows", columns |-> HeaderRow, data |-> data]

\* utils.py 231-236
Encode ==
    /\ calc.pc = "rows"
    /\ calc' = [pc |-> "encoded", columns |-> calc.columns, data |-> calc.data,
                text |-> create_csv_content(calc.columns, calc.data).text]
    /\ UNCHANGED <<files, content, disk, store, nextId, tasks, uploads, destroy,
                   enrich, reader>>

\* celery.py 55-62 on the encoded text
Decode ==
    /\ calc.pc = "encoded"
    /\ calc' = [pc |-> "decoded", columns |-> calc.columns, data |-> calc.data,
                text |-> calc.text, out |-> parse_content(calc.text)]
    /\ UNCHANGED <<files, content, disk, store, nextId, tasks, uploads, destroy,
                   enrich, reader>>

NextRoundTrip == Encode \/ Decode

SpecRoundTrip == InitRoundTrip /\ [][NextRoundTrip]_vars

(***************************************************************************)
(* The merge engine, utils.py, on real values.  A JSON value is a string,  *)
(* an integer, null, a list, or an object given by its (key, value) items  *)
(* in order; a Python dict is a function from its keys.                    *)
(***************************************************************************)
MaxLookup == 2
MaxRows == 2

JStr(s) == [t |-> "str", s |-> s]
JInt(n) == [t |-> "int", n |-> n]
JNull == [t |-> "null"]
JList(items) == [t |-> "list", items |-> items]
JObj(items) == [t |-> "obj", items |-> items]
Item(k, v) == [k |-> k, v |-> v]

\* str(value) of a value that is not a dict
str(v) ==
    CASE v.t = "str" -> v.s
      [] v.t = "int" -> ToString(v.n)
      [] v.t = "null" -> "None"
      [] OTHER -> "[]"

\* str.strip() on the keys of the model
strip(k) ==
    CASE k = " price" -> "price"
      [] k = " city" -> "city"
      [] k = " " -> ""
      [] OTHER -> k

\* among the positions that write one key of a dict, the one whose value
\* stays: the last
FirstOf(js) == CHOOSE j \in js : \A i \in js : j <= i

LastOf(js) == CHOOSE j \in js : \A i \in js : i <= j

\* dict(items): a later item of the same key replaces an earlier one
dict(items) ==
    [k \in {items[i].k : i \in 1..Len(items)} |->
        items[LastOf({i \in 1..Len(items) : items[i].k = k})].v]

separator == "_"

\* utils.py 46-54: the items list of __flatten_json
RECURSIVE flatten_items(_, _)
flatten_items(items, parent_key) ==
    IF items = <<>> THEN <<>>
    ELSE LET key == Head(items).k
             value == Head(items).v
             new_key == IF parent_key # "" THEN parent_key \o separator \o key ELSE key
         IN (IF value.t = "obj"
                THEN flatten_items(value.items, new_key)
                ELSE <<Item(new_key, value)>>)
            \o flatten_items(Tail(items), parent_key)

\* utils.py 46-56
flatten_json(nested_json) == dict(flatten_items(nested_json.items, ""))

ApiError(e) == [error |-> e, api_columns |-> {}, api_lookup |-> <<>>]

\* utils.py 110-111 raise on an element without .items() and on a flattened
\* record without the key
AllMappings(api_data) == \A i \in 1..Len(api_data) : api_data[i].t = "obj"

AllHaveKey(flat, api_key) == \A i \in 1..Len(flat) : api_key \in DOMAIN flat[i]

\* utils.py 119: the column of the join key is left out
SkipKeyNever(key, api_key, file_key, file_columns) == FALSE

SkipKey(key, api_key, file_key, file_columns) ==
    key = api_key /\ file_key \in file_columns

\* utils.py 99-128
call_external_api(response, api_key, file_key, file_columns) ==
    IF ~response.ok THEN ApiError("AssertionError")
    ELSE IF response.json.t # "list" THEN ApiError("AssertionError")
    ELSE LET api_data == response.json.items IN
    IF api_data = <<>> THEN ApiError("AssertionError")
    ELSE IF api_data[1].t # "obj" THEN ApiError("AssertionError")
    ELSE IF api_key \notin DOMAIN dict(api_data[1].items) THEN ApiError("AssertionError")
    ELSE IF ~AllMappings(api_data) THEN ApiError("AttributeError")
    ELSE LET flat == [i \in 1..Len(api_data) |-> flatten_json(api_data[i])] IN
    IF ~AllHaveKey(flat, api_key) THEN ApiError("KeyError")
    ELSE [error |-> "none",
          api_columns |->
             {strip(key) : key \in
                 {k \in UNION {DOMAIN flat[i] : i \in 1..Len(flat)} :
                     /\ ~SkipKey(k, api_key, file_key, file_columns)
                     /\ strip(k) # ""}},
          api_lookup |->
             [s \in {str(flat[i][api_key]) : i \in 1..Len(flat)} |->
                flat[LastOf({i \in 1..Len(flat) : str(flat[i][api_key]) = s})]]]

\* dict.get(key) and dict.get(key, default)
get(row, key, default) == IF key \in DOMAIN row THEN row[key] ELSE default

Range(seq) == {seq[i] : i \in 1..Len(seq)}

\* list(a_set): the order is the one of the hash table, fixed for one
\* process and different between processes; order lists every name
list(a_set, order) == SelectSeq(order, LAMBDA n : n \in a_set)

MergeError(e, called) ==
    [error |-> e, called |-> called, api_columns |-> {}, api_lookup |-> <<>>,
     all_columns |-> <<>>, enriched_data |-> <<>>]

\* utils.py 194: every column of the new row starts as None
InitialEmptyString == JStr("")

InitialValue == JNull

\* utils.py 192-208 for one row: a dict with every column of all_columns,
\* then the assignments of the source columns (line 198) and of the lookup
\* columns the matched record has (line 206)
enriched_row(row, all_columns, file_columns, file_key, api) ==
    LET file_key_value == str(get(row, file_key, JStr("")))
        api_row == api.api_lookup[file_key_value]
        written == IF file_key_value \in DOMAIN api.api_lookup
                      THEN {col \in api.api_columns : col \in DOMAIN api_row}
                      ELSE {}
    IN [col \in Range(all_columns) \cup file_columns \cup written |->
           IF col \in written THEN api_row[col]
           ELSE IF col \in file_columns THEN get(row, col, JNull)
           ELSE InitialValue]

\* utils.py 180: the assert on the join column
KeyCheckedNever(file_key, file_columns) == TRUE

KeyChecked(file_key, file_columns) == file_key \in file_columns

\* utils.py 187 with the source columns only
AllColumnsOfFile(file_columns, api_columns, order) == list(file_columns, order)

\* utils.py 187: list(file_columns | api_columns)
AllColumns(file_columns, api_columns, order) ==
    list(file_columns \cup api_columns, order)

\* utils.py 172-210.  columns is the nullable column list of the file row,
\* data the rows of its content row (NULL without one), called says whether
\* requests.get was reached.
enrich_content(columns, data, file_key, api_key, response, order) ==
    IF columns = NULL THEN MergeError("TypeError", FALSE)
    ELSE LET cols == CHOOSE c \in columns : TRUE
             file_columns == Range(cols) IN
    IF ~KeyChecked(file_key, file_columns) THEN MergeError("AssertionError", FALSE)
    ELSE LET api == call_external_api(response, api_key, file_key, file_columns) IN
    IF api.error # "none" THEN MergeError(api.error, TRUE)
    ELSE IF data = NULL THEN MergeError("RelatedObjectDoesNotExist", TRUE)
    ELSE LET all_columns == AllColumns(file_columns, api.api_columns, order)
             file_content == CHOOSE d \in data : TRUE
         IN [error |-> "none", called |-> TRUE,
             api_columns |-> api.api_columns, api_lookup |-> api.api_lookup,
             all_columns |-> all_columns,
             enriched_data |->
                [i \in 1..Len(file_content) |->
                    enriched_row(file_content[i], all_columns, file_columns,
                                 file_key, api)]]

(***************************************************************************)
(* Inputs of the merge: a file with the columns id and price, lookup       *)
(* records that share a key string, nest, carry a name to strip, lack the  *)
(* key, or are no mapping at all.                                          *)
(***************************************************************************)
FileColumns == <<"id", "price">>
FileKeys == {"id", "zz"}
ApiKeys == {"id", "name"}
SourceRows ==
    {("id" :> JStr("1") @@ "price" :> JStr("5")),
     ("id" :> JStr("3") @@ "price" :> JStr("2")),
     ("price" :> JStr("7"))}
LookupRecords ==
    {JObj(<<Item("id", JInt(1)), Item("name", JStr("A"))>>),
     JObj(<<Item("id", JStr("1")), Item("name", JStr("B")), Item("price", JInt(9))>>),
     JObj(<<Item("id", JStr("2")), Item("name", JStr("C")),
            Item("geo", JObj(<<Item("lat", JInt(4))>>))>>),
     JObj(<<Item("id", JStr("3")), Item("name", JStr("D")), Item(" price", JInt(8)),
            Item(" city", JStr("X")), Item(" ", JNull)>>),
     JObj(<<Item("name", JStr("E"))>>),
     JStr("x")}
Responses ==
    {[ok |-> FALSE, json |-> JNull],
     [ok |-> TRUE, json |-> JObj(<<Item("id", JInt(1))>>)]}
    \cup {[ok |-> TRUE, json |-> JList(l)] : l \in SeqsUpTo(LookupRecords, MaxLookup)}
ColumnOrders ==
    {<<"id", "price", "name", "geo_lat", "city">>,
     <<"city", "geo_lat", "name", "price", "id">>}

InitMerge ==
    /\ files = [f \in FileIds |-> NoFile]
    /\ content = [f \in FileIds |-> NoContent]
    /\ disk = [f \in FileIds |-> NoBytes]
    /\ store = [f \in FileIds |-> NoStatus]
    /\ nextId = 1
    /\ tasks = [t \in TaskIds |-> IdleTask]
    /\ uploads = [u \in UploadIds |-> IdleUpload]
    /\ destroy = [pc |-> "idle", file |-> 0]
    /\ enrich = IdleEnrich
    /\ reader = NoRead
    /\ \E data \in SeqsUpTo(SourceRows, MaxRows), file_key \in FileKeys,
          api_key \in ApiKeys, response \in Responses, order \in ColumnOrders :
          calc = [pc |-> "input", data |-> data, file_key |-> file_key,
                  api_key |-> api_key, response |-> response, order |-> order]

\* services.py 141: except Exception catches whatever enrich_content raised
RaisedAssertionOnly(out) == out.error = "AssertionError"

Raised(out) == out.error # "none"

\* services.py 116-119 and 141-144: enrich_content runs in memory; when it
\* raises, enriched_file is still None and the exception leaves enrich_file
\* (pc raised), otherwise line 122 is reached (pc create)
Merge ==
    /\ calc.pc = "input"
    /\ LET out == enrich_content(Some(FileColumns), Some(calc.data), calc.file_key,
                                 calc.api_key, calc.response, calc.order)
       IN calc' = [pc |-> IF Raised(out) THEN "raised" ELSE "create",
                   data |-> calc.data, file_key |-> calc.file_key,
                   api_key |-> calc.api_key, response |-> calc.response,
                   order |-> calc.order, out |-> out]
    /\ UNCHANGED <<files, content, disk, store, nextId, tasks, uploads, destroy,
                   enrich, reader>>

NextMerge == Merge

SpecMerge == InitMerge /\ [][NextMerge]_vars

(***************************************************************************)
(* __flatten_json on its own, on mappings nested up to MaxDepth levels:    *)
(* a key that holds the separator, the empty key, one or two keys at the   *)
(* top in either order.                                                    *)
(***************************************************************************)
MaxDepth == 3

\* dict(items).items(): each key once, at the place of its first item, with
\* the value of its last
RECURSIVE dict_items(_)
dict_items(items) ==
    IF items = <<>> THEN <<>>
    ELSE LET n == Len(items)
             front == dict_items(SubSeq(items, 1, n - 1))
             last == items[n]
         IN IF \E j \in 1..Len(front) : front[j].k = last.k
               THEN [j \in 1..Len(front) |->
                       IF front[j].k = last.k THEN last ELSE front[j]]
               ELSE Append(front, last)

\* utils.py 56: the dict __flatten_json returns, as a mapping that can be
\* passed to __flatten_json again
flat_obj(nested_json) == JObj(dict_items(flatten_items(nested_json.items, "")))

FlattenLeaves == {JInt(1), JInt(2)}
InnerKeys == {"b", ""}
TopKeys == {"a", "a_b", ""}

RECURSIVE NestedValues(_)
NestedValues(d) ==
    IF d = 0 THEN FlattenLeaves
    ELSE FlattenLeaves
         \cup {JObj(<<Item(k, v)>>) : k \in InnerKeys, v \in NestedValues(d - 1)}

NestedMappings ==
    LET top == {Item(k, v) : k \in TopKeys, v \in NestedValues(MaxDepth - 1)}
    IN {JObj(its) : its \in {s \in SeqsUpTo(top, 2) :
                                \A i \in 1..Len(s) : \A j \in 1..Len(s) :
                                   s[i].k = s[j].k => i = j}}

InitFlatten ==
    /\ files = [f \in FileIds |-> NoFile]
    /\ content = [f \in FileIds |-> NoContent]
    /\ disk = [f \in FileIds |-> NoBytes]
    /\ store = [f \in FileIds |-> NoStatus]
    /\ nextId = 1
    /\ tasks = [t \in TaskIds |-> IdleTask]
    /\ uploads = [u \in UploadIds |-> IdleUpload]
    /\ destroy = [pc |-> "idle", file |-> 0]
    /\ enrich = IdleEnrich
    /\ reader = NoRead
    /\ \E m \in NestedMappings : calc = [pc |-> "nested", m |-> m]

\* utils.py 46-56, and the same call on the mapping it returned
Flatten ==
    /\ calc.pc = "nested"
    /\ calc' = [pc |-> "flat", m |-> calc.m, out |-> flatten_json(calc.m),
                again |-> flatten_json(flat_obj(calc.m))]
    /\ UNCHANGED <<files, content, disk, store, nextId, tasks, uploads, destroy,
                   enrich, reader>>

NextFlatten == Flatten

SpecFlatten == InitFlatten /\ [][NextFlatten]_vars

(***************************************************************************)
(* The preview page, services.py 67-81, for a file whose content row has   *)
(* row_count rows, asked with the page and page size the input serializer  *)
(* lets through (both at least 1).                                         *)
(***************************************************************************)
MaxPreviewRows == 5
MaxPage == 4
MaxPageSize == 3

Min(a, b) == IF a <= b THEN a ELSE b

\* seq[start:end + 1]
slice_inclusive(seq, start_index, end_index) ==
    LET lo == Min(start_index, Len(seq))
        hi == Min(end_index + 1, Len(seq))
    IN [i \in 1..(hi - lo) |-> seq[lo + i]]

\* seq[start:end] of Python for 0 <= start <= end
slice(seq, start_index, end_index) ==
    LET lo == Min(start_index, Len(seq))
        hi == Min(end_index, Len(seq))
    IN [i \in 1..(hi - lo) |-> seq[lo + i]]

\* services.py 80 with a division that rounds down
total_pages_floor(row_count, page_size) == row_count \div page_size

\* services.py 80
total_pages(row_count, page_size) == (row_count + page_size - 1) \div page_size

\* services.py 67-81
get_preview_data(file, params) ==
    LET page == params.page
        page_size == params.page_size
        start_index == (page - 1) * page_size
        end_index == start_index + page_size
    IN [columns |-> file.columns,
        rows |-> slice(file.content.data, start_index, end_index),
        row_count |-> file.content.row_count,
        current_page |-> page,
        page_size |-> page_size,
        total_pages |-> total_pages(file.content.row_count, page_size)]

\* a file whose content row holds n rows, as celery.py 59-70 stores them
PreviewFile(n) ==
    [columns |-> <<"id">>,
     content |-> [data |-> [i \in 1..n |-> ("id" :> JStr(ToString(i)))],
                  row_count |-> n]]

InitPreview ==
    /\ files = [f \in FileIds |-> NoFile]
    /\ content = [f \in FileIds |-> NoContent]
    /\ disk = [f \in FileIds |-> NoBytes]
    /\ store = [f \in FileIds |-> NoStatus]
    /\ nextId = 1
    /\ tasks = [t \in TaskIds |-> IdleTask]
    /\ uploads = [u \in UploadIds |-> IdleUpload]
    /\ destroy = [pc |-> "idle", file |-> 0]
    /\ enrich = IdleEnrich
    /\ reader = NoRead
    /\ \E n \in 0..MaxPreviewRows, page \in 1..MaxPage, page_size \in 1..MaxPageSize :
          calc = [pc |-> "request", file |-> PreviewFile(n),
                  params |-> [page |-> page, page_size |-> page_size]]

\* views.py 126: the page is computed
PreviewPage ==
    /\ calc.pc = "request"
    /\ calc' = [pc |-> "page", file |-> calc.file, params |-> calc.params,
                out |-> get_preview_data(calc.file, calc.params)]
    /\ UNCHANGED <<files, content, disk, store, nextId, tasks, uploads, destroy,
                   enrich, reader>>

NextPreview == PreviewPage

SpecPreview == InitPreview /\ [][NextPreview]_vars

(***************************************************************************)
(* The preview handler with its cache, views.py 114-133.  The files 1 to   *)
(* MaxFiles have a content row, file MaxFiles + 1 has none yet, file 0 is  *)
(* no file.  A cache entry holds the payload and the seconds it has left   *)
(* to live; the cache drops it when they are over.                         *)
(***************************************************************************)
timeout == 900
ClockStep == 450

PreviewParams == {[page |-> 1, page_size |-> 1], [page |-> 1, page_size |-> 2]}
PreviewIds == 0..(MaxFiles + 1)

\* views.py 119 without the page size
cache_key_without_size(pk, page, page_size) ==
    "file_" \o ToString(pk) \o "_" \o ToString(page)

\* views.py 119
cache_key(pk, page, page_size) ==
    "file_" \o ToString(pk) \o "_" \o ToString(page) \o "_" \o ToString(page_size)

KeyOf(pk, params) == cache_key(pk, params.page, params.page_size)

\* cache.get(key): None for a key the cache does not hold
cache_get(cache, key) == IF key \in DOMAIN cache THEN cache[key].payload ELSE NULL

\* cache.set(key, payload, timeout=900)
cache_set(cache, key, payload) ==
    [k \in DOMAIN cache \cup {key} |->
        IF k = key THEN [payload |-> payload, ttl |-> timeout] ELSE cache[k]]

NoResponse == [code |-> 0]

InitCache ==
    /\ files = [f \in FileIds |-> NoFile]
    /\ content = [f \in FileIds |-> NoContent]
    /\ disk = [f \in FileIds |-> NoBytes]
    /\ store = [f \in FileIds |-> NoStatus]
    /\ nextId = 1
    /\ tasks = [t \in TaskIds |-> IdleTask]
    /\ uploads = [u \in UploadIds |-> IdleUpload]
    /\ destroy = [pc |-> "idle", file |-> 0]
    /\ enrich = IdleEnrich
    /\ reader = NoRead
    /\ calc = [pc |-> "serve", cache |-> <<>>, last |-> NoResponse]

\* views.py 114-133 for one request.  computed says whether
\* get_preview_data was called.
Preview(pk, params) ==
    /\ calc.pc = "serve"
    /\ LET key == KeyOf(pk, params)
           cached_data == cache_get(calc.cache, key)
       IN IF pk = 0
             THEN calc' = [calc EXCEPT !.last =
                             [code |-> 404, pk |-> pk, params |-> params,
                              computed |-> FALSE]]
          ELSE IF cached_data # NULL
             THEN calc' = [calc EXCEPT !.last =
                             [code |-> 200, pk |-> pk, params |-> params,
                              computed |-> FALSE,
                              data |-> CHOOSE d \in cached_data : TRUE]]
          ELSE IF pk = MaxFiles + 1
             THEN calc' = [calc EXCEPT !.last =
                             [code |-> 500, pk |-> pk, params |-> params,
                              computed |-> TRUE]]
          ELSE LET display_data == get_preview_data(PreviewFile(pk + 1), params)
               IN calc' = [calc EXCEPT
                             !.cache = cache_set(calc.cache, key, Some(display_data)),
                             !.last = [code |-> 200, pk |-> pk, params |-> params,
                                       computed |-> TRUE, data |-> display_data]]
    /\ UNCHANGED <<files, content, disk, store, nextId, tasks, uploads, destroy,
                   enrich, reader>>

\* ClockStep seconds pass: an entry whose time is over is gone
Advance ==
    /\ calc.pc = "serve"
    /\ calc.cache # <<>>
    /\ LET live == {k \in DOMAIN calc.cache : calc.cache[k].ttl > ClockStep}
       IN calc' = [calc EXCEPT !.cache =
                      [k \in live |-> [calc.cache[k] EXCEPT !.ttl = @ - ClockStep]]]
    /\ UNCHANGED <<files, content, disk, store, nextId, tasks, uploads, destroy,
                   enrich, reader>>

NextCache ==
    \/ \E pk \in PreviewIds, params \in PreviewParams : Preview(pk, params)
    \/ Advance

SpecCache == InitCache /\ [][NextCache]_vars

(***************************************************************************)
(* The preview handler next to the task and to deletions, for the tables   *)
(* of one upload that was processed: get_object reads the row, the page is *)
(* taken from the cache or computed from the row's columns and its content *)
(* row, whose rows are those of the bytes named by source.  A page of the  *)
(* requests made here needs the first MaxPageSize rows at most.            *)
(***************************************************************************)
stored_data(c) ==
    [i \in 1..Min(c.row_count, MaxPageSize) |-> <<c.source, i>>]

StoredFile(f) ==
    [columns |-> files[f].columns,
     content |-> [data |-> stored_data(content[f]), row_count |-> content[f].row_count]]

InitServe ==
    /\ Uploaded(GoodCsv, TRUE)
    /\ tasks = [t \in TaskIds |-> IF t = 1 THEN UploadedTask(TRUE) ELSE IdleTask]
    /\ calc = [pc |-> "serve", cache |-> <<>>, last |-> NoResponse]

\* views.py 114-133: get_object answers 404 before the cache is asked;
\* file.content raises when the row has no content row (services.py 69)
PreviewStored(pk, params) ==
    /\ calc.pc = "serve"
    /\ LET key == KeyOf(pk, params)
           cached_data == cache_get(calc.cache, key)
       IN IF ~IsFile(pk)
             THEN calc' = [calc EXCEPT !.last =
                             [code |-> 404, pk |-> pk, params |-> params,
                              computed |-> FALSE]]
          ELSE IF cached_data # NULL
             THEN calc' = [calc EXCEPT !.last =
                             [code |-> 200, pk |-> pk, params |-> params,
                              computed |-> FALSE,
                              data |-> CHOOSE d \in cached_data : TRUE]]
          ELSE IF content[pk] = NoContent
             THEN calc' = [calc EXCEPT !.last =
                             [code |-> 500, pk |-> pk, params |-> params,
                              computed |-> TRUE]]
          ELSE LET display_data == get_preview_data(StoredFile(pk), params)
               IN calc' = [calc EXCEPT
                             !.cache = cache_set(calc.cache, key, Some(display_data)),
                             !.last = [code |-> 200, pk |-> pk, params |-> params,
                                       computed |-> TRUE, data |-> display_data]]
    /\ UNCHANGED <<files, content, disk, store, nextId, tasks, uploads, destroy,
                   enrich, reader>>

NextServe ==
    \/ \E f \in FileIds : SendTask(f)
    \/ \E d \in {default_retry_delay \div 2, default_retry_delay} : Tick(d)
    \/ \E t \in TaskIds : Process(t)
    \/ \E f \in FileIds : DestroyFile(f)
    \/ DestroyRow
    \/ \E pk \in FileIds, params \in PreviewParams : PreviewStored(pk, params)
    \/ Advance

SpecServe == InitServe /\ [][NextServe]_vars

(***************************************************************************)
(* The status writes of one attempt that succeeds, celery.py 51-70, row by *)
(* row, for file 1.  The file has nrows data rows in file_size bytes: the  *)
(* header line and every row take a character and a line break at least,   *)
(* but for the last line break.                                            *)
(***************************************************************************)
MaxThousands == 2

MinBytes(nrows) == 2 * nrows + 1

RowCounts == {k * ProgressEvery + d : k \in 0..MaxThousands, d \in {0, 1}}

FileSizes(nrows) == {MinBytes(nrows), MinBytes(nrows) + 7, 4 * MinBytes(nrows), MAX_FILE_SIZE}

InitProgress ==
    /\ files = [f \in FileIds |-> NoFile]
    /\ content = [f \in FileIds |-> NoContent]
    /\ disk = [f \in FileIds |-> NoBytes]
    /\ store = [f \in FileIds |-> NoStatus]
    /\ nextId = 1
    /\ tasks = [t \in TaskIds |-> IdleTask]
    /\ uploads = [u \in UploadIds |-> IdleUpload]
    /\ destroy = [pc |-> "idle", file |-> 0]
    /\ enrich = IdleEnrich
    /\ reader = NoRead
    /\ \E nrows \in RowCounts : \E file_size \in FileSizes(nrows) :
          calc = [pc |-> "start", file_size |-> file_size, nrows |-> nrows,
                  i |-> 0, written |-> <<>>]

\* celery.py 51
AttemptStart ==
    /\ calc.pc = "start"
    /\ store' = set_processing_status(store, 1, PROCESSING, 0)
    /\ calc' = [calc EXCEPT !.pc = "rows", !.written = Append(@, store'[1])]
    /\ UNCHANGED <<files, content, disk, nextId, tasks, uploads, destroy, enrich,
                   reader>>

\* celery.py 61-65 for the row of index i
AttemptRow ==
    /\ calc.pc = "rows"
    /\ calc.i < calc.nrows
    /\ IF calc.i % ProgressEvery = 0
          THEN /\ store' = set_processing_status(store, 1, PROCESSING,
                                                 Progress(calc.i, calc.file_size))
               /\ calc' = [calc EXCEPT !.i = @ + 1, !.written = Append(@, store'[1])]
          ELSE /\ calc' = [calc EXCEPT !.i = @ + 1]
               /\ UNCHANGED store
    /\ UNCHANGED <<files, content, disk, nextId, tasks, uploads, destroy, enrich,
                   reader>>

\* celery.py 70, after the rows are stored
AttemptComplete ==
    /\ calc.pc = "rows"
    /\ calc.i = calc.nrows
    /\ store' = set_processing_status(store, 1, COMPLETED, 100)
    /\ calc' = [calc EXCEPT !.pc = "done", !.written = Append(@, store'[1])]
    /\ UNCHANGED <<files, content, disk, nextId, tasks, uploads, destroy, enrich,
                   reader>>

NextProgress == AttemptStart \/ AttemptRow \/ AttemptComplete

SpecProgress == InitProgress /\ [][NextProgress]_vars

(***************************************************************************)
(* Two task messages for the file of one answered upload, delivered by the *)
(* worker and run side by side: a fresh message and a second one that is   *)
(* fresh too or a retry sent by an earlier execution (stale), or no second *)
(* one.  calc keeps the row and the content row as they were before.       *)
(***************************************************************************)
Attempts == {2, 3}

DenseCsv == [GoodCsv EXCEPT !.size = MinBytes(GoodCsv.nrows)]

Message(retries) == [NewTask(1, "worker", 0) EXCEPT !.retries = retries]

InitRace ==
    \E raw \in RawFiles \cup {DenseCsv}, ok \in BOOLEAN :
       /\ ok => ~raw.malformed
       /\ Uploaded(raw, ok)
       /\ \E second \in {IdleTask} \cup {Message(r) : r \in {0, max_retries}} :
             /\ (second.retries > 0) => ~ok
             /\ tasks = [t \in {1} \cup Attempts |->
                            IF t = 1 THEN UploadedTask(ok)
                            ELSE IF t = 2 THEN Message(0) ELSE second]
       /\ calc = [pc |-> "attempts", file |-> files[1], content |-> content[1]]

NextRace ==
    \/ \E d \in {default_retry_delay \div 2, default_retry_delay} : Tick(d)
    \/ \E t \in Attempts : Process(t)

SpecRace == InitRace /\ [][NextRace]_vars

(***************************************************************************)
(* The same under fair scheduling: the worker goes on with every execution *)
(* it has begun, and time passes for the messages that wait.               *)
(***************************************************************************)
SpecRaceFair ==
    /\ SpecRace
    /\ \A t \in Attempts : WF_vars(Process(t))
    /\ WF_vars(\E d \in {default_retry_delay \div 2, default_retry_delay} : Tick(d))

(***************************************************************************)
(* Properties.                                                             *)
(***************************************************************************)
Running(task) == task.pc \notin {"idle", "queued", "done"}

\* the attempt holds the instance it loaded at line 50
InAttempt(task) == Running(task) /\ task.local # NoFile

PermanentlyFailing(f) == IsFile(f) /\ disk[f] # NoBytes /\ disk[f].malformed

Failed0 == [status |-> FAILED, progress |-> 0]

\* C1: for a file whose parse fails on every execution, the task has run
\* exactly 3 retries when it is over (never a 4th), the status record is
\* {Failed, 0} and nothing further is scheduled.
C1_ThreeRetriesThenFailed ==
    \A t \in TaskIds :
       /\ tasks[t].retries <= max_retries
       /\ (tasks[t].pc = "done" /\ PermanentlyFailing(tasks[t].file)) =>
             /\ tasks[t].retries = max_retries
             /\ store[tasks[t].file] = Failed0

\* C2 as stated: the parsing stage runs at most 3 times in total for one
\* submitted file, the first execution included.
C2_AtMostThreeExecutions ==
    \A t \in TaskIds : tasks[t].runs <= 3

\* C2 amended: the task body runs at most 1 + max_retries = 4 times for one
\* submitted file, and every execution after the first starts from a message
\* that was sent with the fixed delay and has waited that long.
C2_AtMostFourExecutionsDelayed ==
    [][\A t \in TaskIds :
          /\ tasks'[t].runs <= max_retries + 1
          /\ (tasks'[t].runs = tasks[t].runs + 1 /\ tasks[t].runs >= 1) =>
                /\ tasks[t].pc = "queued"
                /\ tasks[t].countdown = default_retry_delay
                /\ tasks[t].waited >= default_retry_delay]_vars

C2_FourthExecution ==
    \E t \in TaskIds : tasks[t].runs = max_retries + 1 /\ tasks[t].pc = "done"

\* C3: when the execution finds no row for its id, the task ends on that
\* execution: its next step is its end, no retry message is sent and the
\* status record of the id is not written.
C3_NotFoundEndsTask ==
    [][\A t \in TaskIds :
          (tasks[t].notFound /\ tasks[t].pc # "done" /\ tasks'[t] # tasks[t]) =>
             /\ tasks'[t].pc = "done"
             /\ store' = store]_vars

\* C4: once the row has been deleted under a running attempt, no step of
\* that attempt writes the file row, the content row or the status record
\* of the id, and none sends a retry message.
C4_DeletedRowStaysDeleted ==
    [][\A t \in TaskIds :
          (InAttempt(tasks[t]) /\ files[tasks[t].file] = NoFile
              /\ tasks'[t] # tasks[t]) =>
             /\ files'[tasks[t].file] = NoFile
             /\ content'[tasks[t].file] = NoContent
             /\ store'[tasks[t].file] = store[tasks[t].file]
             /\ tasks'[t].pc # "queued"]_vars

\* C5: the status of a file row only moves Pending -> Processing ->
\* {Completed, Failed}; a Completed or Failed row never changes status.
C5_StatusMovesForward ==
    [][\A f \in FileIds :
          (files[f] # NoFile /\ files'[f] # NoFile
              /\ files'[f].status # files[f].status) =>
             \/ files[f].status = PENDING /\ files'[f].status = PROCESSING
             \/ files[f].status = PROCESSING
                   /\ files'[f].status \in {COMPLETED, FAILED}]_vars

\* C6: no read request sees an enriched file row that has no content row.
C6_NoEnrichedWithoutContentSeen ==
    ~(reader.file # 0 /\ reader.isEnriched /\ ~reader.hasContent)

AfterCreate == {"save_bytes", "save_size", "create_content"}

\* C7: when enrich_file has failed at a step after it created the enriched
\* row, then on its return that row is gone, no file or content row exists
\* that did not exist before the call, and the call ended by raising.
C7_FailedEnrichLeavesNothing ==
    (enrich.pc = "responded" /\ enrich.failed \in AfterCreate) =>
       /\ files[enrich.new] = NoFile
       /\ content[enrich.new] = NoContent
       /\ Existing(files, NoFile) \subseteq enrich.filesBefore
       /\ Existing(content, NoContent) \subseteq enrich.contentBefore
       /\ enrich.outcome \in {"raised", "raised_cleanup"}

\* C8: when a step of enrich_file failed, the exception that reaches the
\* caller is that step's, also when the compensating delete failed too.
C8_OriginalErrorReachesCaller ==
    (enrich.pc = "responded" /\ enrich.failed \in AfterCreate) =>
       enrich.outcome = "raised"

\* C9: no exception leaves the task body: every execution ends by returning
\* and the upload request that called it is not failed by it.
C9_NoExceptionEscapes ==
    /\ \A t \in TaskIds : tasks[t].pc = "done" => tasks[t].result \in {"True", "False"}
    /\ \A u \in UploadIds :
          (uploads[u].pc = "responded" /\ uploads[u].file # 0) => uploads[u].response = 201

\* C10: the upload request does not wait for the parsing: once the row is
\* created the response can be sent, whatever the state of the task.
C10_UploadNotBlockedOnParsing ==
    \A u \in UploadIds : uploads[u].pc = "in_task" => ENABLED UploadRespond(u)

\* C11: a file row that went through the task has columns if and only if
\* its status is Completed; a Failed or Pending row carries no columns.
C11_ColumnsIffCompleted ==
    \A f \in FileIds :
       (files[f] # NoFile /\ ~files[f].isEnriched) =>
          (files[f].columns # NULL <=> files[f].status = COMPLETED)

\* the data records of a text: its records after the header, blank lines
\* left out
DataRows(recs) == SelectSeq(Tail(recs), NotBlank)

\* C12: every content row has row_count = len(data); for a parsed file the
\* columns are the header record in order and the rows are the data records
\* of the text in their order, cell for cell.
C12_RowsAreTheDataRows ==
    calc.pc = "parsed" =>
       LET header == Head(calc.recs)
           rows == DataRows(calc.recs)
           data == calc.out.content.data
       IN /\ calc.out.content.row_count = Len(data)
          /\ calc.out.columns = Some(header)
          /\ Len(data) = Len(rows)
          /\ \A i \in 1..Len(rows) : \A j \in 1..Len(rows[i]) :
                j <= Len(header) => data[i].d[header[j]] = Some(rows[i][j])

\* the part of C12 about the count alone
C12_RowCountIsLen ==
    calc.pc = "parsed" => calc.out.content.row_count = Len(calc.out.content.data)

\* C13: when an execution that parsed without error returns, the content
\* row with the parsed rows exists, the file row holds the parsed columns
\* and status Completed, and the status record is {Completed, 100}.
C13_SuccessPostcondition ==
    [][\A t \in TaskIds :
          (tasks[t].pc = "set_completed" /\ tasks'[t].pc = "done"
              /\ tasks'[t].result = "True") =>
             LET f == tasks[t].file IN
             /\ content'[f] # NoContent
             /\ content'[f].row_count = tasks[t].nrows
             /\ files'[f] # NoFile
             /\ files'[f].columns = tasks[t].cols
             /\ files'[f].status = COMPLETED
             /\ store'[f] = [status |-> COMPLETED, progress |-> 100]]_vars

\* C14: an execution that failed with something else than a missing row
\* asks for the retry only after it has saved status Failed on the file row
\* and written {Failed, 0} to the status record.
C14_FailedWritesBeforeRetry ==
    [][\A t \in TaskIds :
          (tasks'[t].pc = "retry" /\ tasks[t].pc # "retry" /\ ~tasks'[t].notFound) =>
             /\ tasks[t].pc = "except_status"
             /\ tasks[t].local.status = FAILED
             /\ store'[tasks[t].file] = Failed0]_vars

\* C15: no two file rows have the same name, whatever the interleaving of
\* the requests that check the name and then insert the row.
C15_NamesUnique ==
    \A f \in FileIds : \A g \in FileIds :
       (files[f] # NoFile /\ files[g] # NoFile /\ files[f].name = files[g].name) => f = g

NothingStored ==
    /\ files = [f \in FileIds |-> NoFile]
    /\ content = [f \in FileIds |-> NoContent]
    /\ disk = [f \in FileIds |-> NoBytes]

\* C16: when the join column is not a column of the source file, the
\* enrichment raises before requests.get is reached, line 122 is not
\* reached and no file row, content row or stored file is written.
C16_MissingFileKeyFailsFast ==
    (calc.pc \in {"create", "raised"} /\ calc.file_key \notin Range(FileColumns)) =>
       /\ calc.pc = "raised"
       /\ calc.out.error # "none"
       /\ ~calc.out.called
       /\ NothingStored

C16_MissingFileKeyRaised ==
    /\ calc.pc = "raised"
    /\ calc.file_key \notin Range(FileColumns)
    /\ calc.response.ok
    /\ ~calc.out.called

\* what the lookup source may not answer: a failure, something else than a
\* list, an empty list, an element that is no mapping, a record without
\* the key field
BadRecord(r, api_key) ==
    \/ r.t # "obj"
    \/ api_key \notin DOMAIN flatten_json(r)

BadResponse(response, api_key) ==
    \/ ~response.ok
    \/ response.json.t # "list"
    \/ response.json.items = <<>>
    \/ \E i \in 1..Len(response.json.items) : BadRecord(response.json.items[i], api_key)

\* C17: on a bad answer of the lookup source, wherever in the list the bad
\* record is, the enrichment raises, no merged row is made and line 122
\* (the creation of the file row) is not reached.
C17_BadResponseFails ==
    (calc.pc \in {"create", "raised"} /\ BadResponse(calc.response, calc.api_key)) =>
       /\ calc.pc = "raised"
       /\ calc.out.error # "none"
       /\ calc.out.enriched_data = <<>>
       /\ NothingStored

\* the bad record is the second of the list, the first is good
C17_BadSecondRecord ==
    /\ calc.pc = "raised"
    /\ calc.out.called
    /\ calc.response.ok
    /\ calc.response.json.t = "list"
    /\ Len(calc.response.json.items) = 2
    /\ ~BadRecord(calc.response.json.items[1], calc.api_key)
    /\ BadRecord(calc.response.json.items[2], calc.api_key)

\* C18: the lookup table has one entry per string form of a key value of
\* the flattened records, and the entry is the last record of that key.
C18_LookupLastWins ==
    calc.pc = "create" =>
       LET items == calc.response.json.items
           flat == [i \in 1..Len(items) |-> flatten_json(items[i])]
           key(i) == str(flat[i][calc.api_key])
           lookup == calc.out.api_lookup
       IN /\ DOMAIN lookup = {key(i) : i \in 1..Len(items)}
          /\ \A i \in 1..Len(items) :
                (\A j \in (i + 1)..Len(items) : key(j) # key(i)) => lookup[key(i)] = flat[i]

\* two different records of the same key string
C18_SharedKey ==
    /\ calc.pc = "create"
    /\ Len(calc.response.json.items) = 2
    /\ LET a == flatten_json(calc.response.json.items[1])
           b == flatten_json(calc.response.json.items[2])
       IN /\ a # b
          /\ str(a[calc.api_key]) = str(b[calc.api_key])
          /\ a[calc.api_key] # b[calc.api_key]
          /\ calc.out.api_lookup[str(a[calc.api_key])] = b

FlatKeys(response) ==
    UNION {DOMAIN flatten_json(response.json.items[i]) :
              i \in 1..Len(response.json.items)}

NoColumnTwice(columns) ==
    \A i \in 1..Len(columns) : \A j \in 1..Len(columns) :
       columns[i] = columns[j] => i = j

\* C19 as stated: the enriched columns are, as a set, the source columns
\* and every flattened key of the lookup records except the lookup's join
\* key, and no column is there twice.
C19_SchemaIsUnion ==
    calc.pc = "create" =>
       /\ Range(calc.out.all_columns) =
             Range(FileColumns) \cup (FlatKeys(calc.response) \ {calc.api_key})
       /\ NoColumnTwice(calc.out.all_columns)

\* C19 amended: the enriched columns are, as a set, the source columns and
\* every flattened key of the lookup records except the lookup's join key,
\* each stripped of surrounding white space and left out when nothing is
\* left of it; no column is there twice.
C19_SchemaIsStrippedUnion ==
    calc.pc = "create" =>
       /\ Range(calc.out.all_columns) =
             Range(FileColumns)
             \cup ({strip(k) : k \in FlatKeys(calc.response) \ {calc.api_key}} \ {""})
       /\ NoColumnTwice(calc.out.all_columns)

\* the join key has the same name on both sides, a key changes when
\* stripped, a lookup column is a source column too
C19_JoinKeyAndStrippedKey ==
    /\ calc.pc = "create"
    /\ \E k \in FlatKeys(calc.response) : strip(k) # k /\ strip(k) # ""
    /\ calc.out.api_columns \cap Range(FileColumns) # {}
    /\ calc.file_key = calc.api_key

KeyString(row) == str(get(row, calc.file_key, JStr("")))

Unmatched(row) == KeyString(row) \notin DOMAIN calc.out.api_lookup

\* C20 as stated: one enriched row per source row, in the order of the
\* source rows; a row without an entry in the lookup table has null in
\* every lookup column.
C20_UnmatchedRowsAllNull ==
    calc.pc = "create" =>
       /\ Len(calc.out.enriched_data) = Len(calc.data)
       /\ \A i \in 1..Len(calc.data) :
             /\ \A col \in Range(FileColumns) \ calc.out.api_columns :
                   calc.out.enriched_data[i][col] = get(calc.data[i], col, JNull)
             /\ Unmatched(calc.data[i]) =>
                   \A col \in calc.out.api_columns :
                      calc.out.enriched_data[i][col] = JNull

\* C20 amended: one enriched row per source row, in the order of the source
\* rows; a row without an entry in the lookup table keeps its own value in
\* every source column and has null in every lookup column that is not a
\* source column.
C20_UnmatchedRowsKeepSource ==
    calc.pc = "create" =>
       /\ Len(calc.out.enriched_data) = Len(calc.data)
       /\ \A i \in 1..Len(calc.data) :
             /\ \A col \in Range(FileColumns) \ calc.out.api_columns :
                   calc.out.enriched_data[i][col] = get(calc.data[i], col, JNull)
             /\ Unmatched(calc.data[i]) =>
                   /\ \A col \in Range(FileColumns) :
                         calc.out.enriched_data[i][col] = get(calc.data[i], col, JNull)
                   /\ \A col \in calc.out.api_columns \ Range(FileColumns) :
                         calc.out.enriched_data[i][col] = JNull

\* a matched row followed by an unmatched one, with a lookup column that is
\* not a source column
C20_UnmatchedAfterMatched ==
    /\ calc.pc = "create"
    /\ Len(calc.data) = 2
    /\ ~Unmatched(calc.data[1])
    /\ Unmatched(calc.data[2])
    /\ calc.out.api_columns \ Range(FileColumns) # {}

\* the keys of a flattened lookup record that give the column col
KeysOf(record, col) ==
    {k \in DOMAIN record :
        /\ strip(k) = col
        /\ ~SkipKey(k, calc.api_key, calc.file_key, Range(FileColumns))}

\* C21: a source row whose join value, as a string, is a key of the lookup
\* table carries the record's value in every lookup column the record has a
\* key for, and its own value in every other source column.
C21_MatchedRowCarriesRecord ==
    calc.pc = "create" =>
       \A i \in 1..Len(calc.data) :
          ~Unmatched(calc.data[i]) =>
             LET record == calc.out.api_lookup[KeyString(calc.data[i])]
                 present == {col \in calc.out.api_columns : KeysOf(record, col) # {}}
             IN /\ \A col \in present : \E k \in KeysOf(record, col) :
                      calc.out.enriched_data[i][col] = record[k]
                /\ \A col \in Range(FileColumns) \ present :
                      calc.out.enriched_data[i][col] = get(calc.data[i], col, JNull)

IsFlat(m) == \A i \in 1..Len(m.items) : m.items[i].v.t # "obj"

\* m with the value of item i replaced by v
WithValue(m, i, v) ==
    JObj([j \in 1..Len(m.items) |-> IF j = i THEN Item(m.items[j].k, v) ELSE m.items[j]])

\* the mappings that are m with one inner mapping, at any depth, replaced by
\* its flattened form
RECURSIVE ReplaceOne(_)
ReplaceOne(m) ==
    UNION {{WithValue(m, i, flat_obj(m.items[i].v))}
           \cup {WithValue(m, i, v) : v \in ReplaceOne(m.items[i].v)} :
              i \in {j \in 1..Len(m.items) : m.items[j].v.t = "obj"}}

\* C22: flattening a mapping without a nested mapping returns an equal
\* mapping, flattening the flattened mapping returns it again, and a mapping
\* with one inner mapping replaced by its flattened form flattens to the
\* same result as the original.
C22_FlattenIdempotent ==
    calc.pc = "flat" =>
       /\ IsFlat(calc.m) => calc.out = dict(calc.m.items)
       /\ calc.again = calc.out
       /\ \A m \in ReplaceOne(calc.m) : flatten_json(m) = calc.out

\* the first two parts of C22 alone
C22_FlatAndTwice ==
    calc.pc = "flat" =>
       /\ IsFlat(calc.m) => calc.out = dict(calc.m.items)
       /\ calc.again = calc.out

\* the leaves of a mapping, each with the keys on the way to it
RECURSIVE LeafPaths(_, _)
LeafPaths(m, path) ==
    UNION {IF m.items[i].v.t = "obj"
              THEN LeafPaths(m.items[i].v, Append(path, m.items[i].k))
              ELSE {[path |-> Append(path, m.items[i].k), value |-> m.items[i].v]} :
           i \in 1..Len(m.items)}

\* the keys of a path joined with the separator
RECURSIVE JoinPath(_)
JoinPath(path) ==
    IF Len(path) = 1 THEN path[1]
    ELSE JoinPath(SubSeq(path, 1, Len(path) - 1)) \o separator \o path[Len(path)]

\* the same mapping with its keys in every order, at every level
RECURSIVE Reorderings(_)
Reorderings(v) ==
    IF v.t # "obj" THEN {v}
    ELSE LET n == Len(v.items)
             orders == {p \in [1..n -> 1..n] : \A i, j \in 1..n : p[i] = p[j] => i = j}
             all == UNION {Reorderings(v.items[i].v) : i \in 1..n}
             values == {c \in [1..n -> all] :
                          \A i \in 1..n : c[i] \in Reorderings(v.items[i].v)}
         IN {JObj([i \in 1..n |-> Item(v.items[p[i]].k, c[p[i]])]) :
                p \in orders, c \in values}

\* C23: the flattened mapping has one entry per leaf, under the keys of the
\* leaf's path joined with the separator and with the leaf's value, and is
\* the same for every order of the keys at every level.
C23_FlattenKeepsEveryLeaf ==
    calc.pc = "flat" =>
       LET leaves == LeafPaths(calc.m, <<>>)
       IN /\ Cardinality(DOMAIN calc.out) = Cardinality(leaves)
          /\ \A l \in leaves :
                /\ JoinPath(l.path) \in DOMAIN calc.out
                /\ calc.out[JoinPath(l.path)] = l.value
          /\ \A m \in Reorderings(calc.m) : flatten_json(m) = calc.out

\* the least number of pages of page_size rows that hold row_count rows
Ceiling(row_count, page_size) ==
    CHOOSE t \in 0..row_count : t * page_size >= row_count /\ (t - 1) * page_size < row_count

\* C24: the preview returns the rows from (page-1)*pageSize up to, not
\* including, (page-1)*pageSize+pageSize, as many of them as the file has,
\* and totalPages is rowCount / pageSize rounded up; a page after the last
\* has no rows.
C24_PageIsTheSlice ==
    calc.pc = "page" =>
       LET data == calc.file.content.data
           n == calc.file.content.row_count
           page == calc.params.page
           page_size == calc.params.page_size
           first == (page - 1) * page_size
           there == {i \in 1..page_size : first + i <= n}
       IN /\ Len(calc.out.rows) = Cardinality(there)
          /\ \A i \in there : calc.out.rows[i] = data[first + i]
          /\ calc.out.total_pages = Ceiling(n, page_size)
          /\ page > calc.out.total_pages => calc.out.rows = <<>>
          /\ page <= calc.out.total_pages => calc.out.rows # <<>>

\* a file whose last page is not full, asked for the page after the last
C24_PageAfterShortLastPage ==
    /\ calc.pc = "page"
    /\ calc.out.total_pages >= 2
    /\ calc.file.content.row_count % calc.params.page_size # 0
    /\ calc.params.page = calc.out.total_pages + 1
    /\ calc.out.rows = <<>>

\* every page and page size of the bounds
ParamGrid == [page : 1..MaxPage, page_size : 1..MaxPageSize]

\* C25: a preview of (fileId, page, pageSize) whose cache entry is alive
\* returns the payload of the request that wrote the entry, without calling
\* the page computation and without touching the cache; a preview that
\* finds no entry writes what it returns under its own key; and no request
\* reads or writes the entry of another (fileId, page, pageSize).
C25_SecondPreviewFromCache ==
    [][\A pk \in PreviewIds, params \in PreviewParams :
          Preview(pk, params) =>
             LET key == KeyOf(pk, params) IN
             /\ \A pk2 \in PreviewIds, params2 \in ParamGrid :
                   <<pk2, params2>> # <<pk, params>> =>
                      /\ KeyOf(pk2, params2) # key
                      /\ cache_get(calc'.cache, KeyOf(pk2, params2))
                            = cache_get(calc.cache, KeyOf(pk2, params2))
             /\ key \in DOMAIN calc.cache =>
                   /\ calc'.last.code = 200
                   /\ Some(calc'.last.data) = calc.cache[key].payload
                   /\ ~calc'.last.computed
                   /\ calc'.cache = calc.cache
             /\ (key \notin DOMAIN calc.cache /\ calc'.last.code = 200) =>
                   /\ calc'.last.computed
                   /\ calc'.cache[key] = [payload |-> Some(calc'.last.data),
                                          ttl |-> timeout]]_vars

\* a request answered from an entry that has lived for a while, next to the
\* entry of the same file and page with another page size
C25_ServedFromAgedEntry ==
    /\ calc.pc = "serve"
    /\ calc.last.code = 200
    /\ ~calc.last.computed
    /\ KeyOf(calc.last.pk, calc.last.params) \in DOMAIN calc.cache
    /\ calc.cache[KeyOf(calc.last.pk, calc.last.params)].ttl < timeout
    /\ \E params \in PreviewParams :
          /\ params.page = calc.last.params.page
          /\ params.page_size # calc.last.params.page_size
          /\ KeyOf(calc.last.pk, params) \in DOMAIN calc.cache
          /\ calc.cache[KeyOf(calc.last.pk, params)].payload # Some(calc.last.data)

\* C26: a status query for an id without a record in the status store
\* answers with the status "Unknown".
C26_NoRecordIsUnknown ==
    [][\A pk \in QueryIds :
          (StatusQuery(pk) /\ get_processing_status(store, pk) = <<>>) =>
             calc'.out = [status |-> "Unknown"]]_vars

\* the query of an id without a record has been answered while another id
\* has a record
C26_UnknownAnswered ==
    /\ calc.pc = "status"
    /\ get_processing_status(store, calc.pk) = <<>>
    /\ calc.out = [status |-> "Unknown"]
    /\ \E f \in FileIds : store[f] # NoStatus

\* C27: for every file of the table, the status of its row and the answer
\* of a status query for its id are among Pending, Processing, Completed,
\* Failed, and a file whose row says Failed is not answered as Processing.
C27_StatusIsOneOfFour ==
    \A f \in FileIds :
       IsFile(f) =>
          /\ files[f].status \in UploadStatus
          /\ status_view(store, f).status \in UploadStatus
          /\ files[f].status = FAILED => status_view(store, f).status # PROCESSING

Children(f) == {g \in FileIds : files[g] # NoFile /\ files[g].parent = f}

\* C28: the delete of a file row goes through whatever rows were enriched
\* from it; it removes the row and its content row, and leaves every child
\* row in the table, unchanged but for a null parent, with the content row
\* the child has.
C28_DeleteKeepsChildren ==
    [][/\ destroy.pc = "delete_row" => ENABLED DestroyRow
       /\ DestroyRow =>
             /\ files'[destroy.file] = NoFile
             /\ content'[destroy.file] = NoContent
             /\ \A g \in Children(destroy.file) :
                   /\ files'[g] = [files[g] EXCEPT !.parent = NoParent]
                   /\ content'[g] = content[g]]_vars

\* the uploaded file has been deleted after an enrichment of it returned:
\* the enriched row is there with its content and without a parent
C28_ChildOutlivesParent ==
    /\ destroy.pc = "idle"
    /\ files[1] = NoFile
    /\ content[1] = NoContent
    /\ \E g \in FileIds :
          /\ files[g] # NoFile
          /\ files[g].isEnriched
          /\ files[g].parent = NoParent
          /\ content[g] # NoContent

\* no row names a parent that is not in the table
C28_NoDanglingParent ==
    \A g \in FileIds : files[g] # NoFile => ParentThere(files[g])

\* p is i / file_size * 100 rounded down
IsFloorPercent(p, i, file_size) ==
    /\ p * file_size <= i * 100
    /\ i * 100 - p * file_size < file_size

C30_ProgressNeverGoesDown ==
    calc.pc = "done" =>
       LET w == calc.written IN
       /\ w[1] = [status |-> PROCESSING, progress |-> 0]
       /\ w[Len(w)] = [status |-> COMPLETED, progress |-> 100]
       /\ \A k \in 1..(Len(w) - 1) :
             /\ w[k].status = PROCESSING
             /\ w[k].progress <= w[k + 1].progress

\* an attempt over with progress values that went up twice before the end
C30_RisingProgress ==
    /\ calc.pc = "done"
    /\ \E k \in 1..(Len(calc.written) - 3) :
          /\ calc.written[k].progress < calc.written[k + 1].progress
          /\ calc.written[k + 1].progress < calc.written[k + 2].progress
          /\ calc.written[k + 2].progress < calc.written[k + 3].progress

\* a step of enrich_file
EnrichStep ==
    \/ EnrichCompute
    \/ EnrichCreate
    \/ EnrichSaveBytes
    \/ EnrichSaveSize
    \/ EnrichCreateContent
    \/ EnrichCleanup

\* the id of the row enrich_file is making, or has made
EnrichedId == IF enrich.pc = "create" THEN nextId ELSE enrich.new

\* C31: no step of an enrichment changes the row, the content row or the
\* bytes of any file but the one it makes, the source among them; the row
\* it inserts is an enriched, Completed row whose parent is the source, and
\* when it returns the only records that were not there at its start are
\* that row and its content row.
C31_SourceUntouched ==
    [][EnrichStep =>
          /\ \A f \in FileIds \ {EnrichedId} :
                /\ files'[f] = files[f]
                /\ content'[f] = content[f]
                /\ disk'[f] = disk[f]
          /\ (EnrichCreate /\ files' # files) =>
                /\ files'[nextId].isEnriched
                /\ files'[nextId].status = COMPLETED
                /\ files'[nextId].parent = enrich.src
                /\ files[nextId] = NoFile
          /\ enrich'.outcome = "returned" =>
                /\ Existing(files', NoFile) \ enrich.filesBefore \subseteq {enrich.new}
                /\ Existing(content', NoContent) \ enrich.contentBefore = {enrich.new}
                /\ files'[enrich.new].isEnriched
                /\ files'[enrich.src] # NoFile =>
                      /\ files'[enrich.src] = enrich.file
                      /\ files'[enrich.new].parent = enrich.src]_vars

\* an enrichment has returned: the source is as it was read at the start,
\* the new row names it as parent and has its content
C31_EnrichedNextToSource ==
    /\ enrich.outcome = "returned"
    /\ files[enrich.src] = enrich.file
    /\ files[enrich.new] # NoFile
    /\ files[enrich.new].parent = enrich.src
    /\ content[enrich.new] # NoContent
    /\ content[enrich.src] # NoContent

\* the string form of a value in a CSV text: nothing for None, the digits
\* of a number, the string itself
StringForm(v) == IF v.t = "str" THEN v.cell ELSE IF v.t = "int" THEN <<ToString(v.n)>> ELSE <<>>

\* C32: the encoded text is the header line with the columns in order and
\* then one line per row in row order; decoding it gives the same columns
\* and, for every row and column, the string form of the value encoded.
C32_RoundTrip ==
    calc.pc = "decoded" =>
       /\ Len(calc.text) = Len(calc.data) + 1
       /\ calc.text[1] = calc.columns
       /\ calc.out.columns = Some(calc.columns)
       /\ Len(calc.out.content.data) = Len(calc.data)
       /\ \A i \in 1..Len(calc.data) : \A col \in DOMAIN calc.data[i] :
             calc.out.content.data[i].d[col] = Some(StringForm(calc.data[i][col]))

\* the round trip for rows without a line break in a value
C32_RoundTripOfOneLineValues ==
    (calc.pc = "decoded"
        /\ \A i \in 1..Len(calc.data) : \A col \in DOMAIN calc.data[i] :
              Len(Fragments(StringForm(calc.data[i][col]))) = 1) =>
       /\ calc.out.columns = Some(calc.columns)
       /\ Len(calc.out.content.data) = Len(calc.data)
       /\ \A i \in 1..Len(calc.data) : \A col \in DOMAIN calc.data[i] :
             calc.out.content.data[i].d[col] = Some(StringForm(calc.data[i][col]))

\* C33: at every moment of an ingestion, an uploaded file row whose status
\* is Completed (and whose columns are set) has its content row.
C33_CompletedHasContent ==
    \A f \in FileIds :
       (files[f] # NoFile /\ ~files[f].isEnriched
          /\ files[f].status = COMPLETED /\ files[f].columns # NULL)
       => content[f] # NoContent

\* C34: every record of the status store is the pair of one write, whatever
\* the order in which the writers act: its status is Processing, Completed
\* or Failed, never Pending; it is Completed exactly when its progress is
\* 100, and Failed only with progress 0.
C34_StoreRecordIsOneWrite ==
    \A f \in FileIds :
       store[f] # NoStatus =>
          /\ store[f].status \in {PROCESSING, COMPLETED, FAILED}
          /\ store[f].status = COMPLETED <=> store[f].progress = 100
          /\ store[f].status = FAILED => store[f].progress = 0

\* one execution has written Failed over the progress of the other, which
\* is past its rows and about to write Completed
C34_FailedWrittenOverProgress ==
    /\ store[1] = [status |-> FAILED, progress |-> 0]
    /\ tasks[2].pc = "except_status" \/ tasks[2].pc = "retry" \/ tasks[2].pc = "queued"
    /\ tasks[2].runs > 0
    /\ tasks[3].pc = "set_completed"

\* C35: a second execution of the task on a file that is Completed and has
\* its content row changes nothing: when it has ended, retries included,
\* the row is still Completed, the content row is the one it was, and the
\* status record is {Completed, 100}.
C35_SecondRunChangesNothing ==
    (/\ calc.file.status = COMPLETED
     /\ calc.content # NoContent
     /\ tasks[3].pc = "idle"
     /\ tasks[2].pc = "done")
    => /\ files[1] # NoFile
       /\ files[1].status = COMPLETED
       /\ content[1] = calc.content
       /\ store[1] = [status |-> COMPLETED, progress |-> 100]

\* no execution of the task is running, waiting or scheduled
Quiet == \A t \in Attempts : tasks[t].pc \in {"idle", "done"}

\* C36: after two executions for one file id have run side by side and
\* both have ended, the status of the row and the status of the status
\* record are the same terminal value, and that value is Completed when the
\* file has a content row.
C36_RaceEndsConsistent ==
    (tasks[3].pc = "done" /\ tasks[2].pc = "done") =>
       /\ files[1].status \in {COMPLETED, FAILED}
       /\ store[1].status = files[1].status
       /\ content[1] # NoContent => files[1].status = COMPLETED

\* C37: under fair scheduling every execution of the task for a file that
\* exists ends, and from then on the status record of the file is Completed
\* or Failed: the file does not stay Processing.
C37_EndsWithTerminalStatus ==
    <>[](Quiet /\ store[1].status \in {COMPLETED, FAILED})

\* under fair scheduling every execution ends, retries included
C37_EveryExecutionEnds == <>[]Quiet

\* the cache entry of a request for an existing file is the page the
\* handler would compute now
EntryIsCurrent(pk, params) ==
    (IsFile(pk) /\ KeyOf(pk, params) \in DOMAIN calc.cache) =>
       /\ content[pk] # NoContent
       /\ calc.cache[KeyOf(pk, params)].payload
             = Some(get_preview_data(StoredFile(pk), params))

\* C38: after any sequence of task executions, retries, previews and
\* deletions every live cache entry of a file is the page that would be
\* computed now from the stored columns and rows, and a preview of a file
\* that is deleted is answered 404, never from the cache.
C38_CacheEntriesAreCurrent ==
    [][/\ \A pk \in FileIds, params \in PreviewParams : EntryIsCurrent(pk, params)'
       /\ \A pk \in FileIds, params \in PreviewParams :
             (PreviewStored(pk, params) /\ ~IsFile(pk)) => calc'.last.code = 404]_vars

\* a preview of a file whose row is gone is answered 404 although the cache
\* still holds its page
C38_DeletedNotServed ==
    [][\A pk \in FileIds, params \in PreviewParams :
          (PreviewStored(pk, params) /\ ~IsFile(pk)) => calc'.last.code = 404]_vars

\* the rows of the pages 1 to last of a file, one page after the other
RECURSIVE PagesUpTo(_, _, _)
PagesUpTo(file, page_size, last) ==
    IF last = 0 THEN <<>>
    ELSE PagesUpTo(file, page_size, last - 1)
            \o get_preview_data(file, [page |-> last, page_size |-> page_size]).rows

\* C39: for the rows of a file and a page size of 1 or more, the pages 1 to
\* total_pages hold between 1 and page_size rows each and, put one after the
\* other, are the stored rows in their order; total_pages is 0 for a file
\* without rows.
C39_PagesPartitionRows ==
    calc.pc = "page" =>
       LET page_size == calc.params.page_size
           last == calc.out.total_pages
       IN /\ \A p \in 1..last :
                Len(get_preview_data(calc.file, [page |-> p, page_size |-> page_size]).rows)
                   \in 1..page_size
          /\ PagesUpTo(calc.file, page_size, last) = calc.file.content.data
          /\ calc.file.content.data = <<>> => last = 0

\* the last of several pages was asked for and it is not full
C39_ShortLastPageServed ==
    /\ calc.pc = "page"
    /\ calc.out.total_pages >= 2
    /\ calc.params.page = calc.out.total_pages
    /\ Len(calc.out.rows) \in 1..(calc.params.page_size - 1)

\* C40: every enriched row has the columns of the enriched schema as its
\* keys, no more and no fewer, whatever the source rows and the lookup
\* response, so the encoding of the rows against the schema meets no key
\* that is not a column.
C40_RowKeysAreTheSchema ==
    calc.pc = "create" =>
       \A i \in 1..Len(calc.out.enriched_data) :
          /\ DOMAIN calc.out.enriched_data[i] = Range(calc.out.all_columns)
          /\ wrong_fields(calc.out.all_columns, calc.out.enriched_data[i]) = {}

\* a source row without the column id next to a row matched by a record,
\* the two records of the response having different keys
C40_RowLacksColumnRecordsDiffer ==
    /\ calc.pc = "create"
    /\ Len(calc.data) = 2
    /\ \E i \in 1..2 : "id" \notin DOMAIN calc.data[i]
    /\ \E i \in 1..2 :
          /\ str(get(calc.data[i], calc.file_key, JStr(""))) \in DOMAIN calc.out.api_lookup
          /\ \E col \in calc.out.api_columns \ Range(FileColumns) :
                calc.out.enriched_data[i][col] # JNull
    /\ Len(calc.response.json.items) = 2
    /\ DOMAIN flatten_json(calc.response.json.items[1])
          # DOMAIN flatten_json(calc.response.json.items[2])

====
